---- MODULE Spec2Model ----
(***************************************************************************)
(* A model of the result-decoding core of the RelationalAI Go SDK that is  *)
(* vendored by rai-cli: the metadata type interpreter (metadata.go), the   *)
(* partition column adapters, the relation assembler and the relation      *)
(* algebra (results.go).                                                   *)
(*                                                                         *)
(* Go values of static type `any` are records whose field vk names the     *)
(* dynamic type; columns are records whose field ck names the concrete     *)
(* column struct.  A Go runtime panic is the column / relation record      *)
(* Panic(why).  Row and column numbers are 0-based as in the source;       *)
(* sequences are 1-based, so element n of a Go slice s is s[n + 1].        *)
(***************************************************************************)
EXTENDS Integers, Sequences, FiniteSets, TLC

VARIABLES
    record,     \* the arrow record delivered for one partition id
    part,       \* the Partition built from it by newPartition
    meta,       \* the metadata signature delivered for the same id
    rel,        \* the result of the last newBaseRelation call
    coll,       \* a RelationCollection
    un,         \* the result of the last RelationCollection.Union call
    ctnode,     \* a protobuf ConstantType node handed to the type interpreter
    ctnative,   \* the result of asNativeConstType on ctnode
    msig,       \* the compositor handed to mergeConstValueArgs
    marg,       \* the argument handed to mergeConstValueArgs
    mres,       \* the result of mergeConstValueArgs(msig, marg)
    sel,        \* the last RelationCollection.Select call and its result
    sl,         \* the last Relation.Slice call and its result
    call,       \* a call of a function of rel.go or of a column's Item
    ret,        \* the value that call returns
    readers,    \* the accessor each reader of rel is in, and where in it
    resp,       \* a TransactionResponse
    got,        \* the last TransactionResponse.Relations call and its result
    stream,     \* the arrow stream of one multipart part and what is read from it
    txn,        \* a Client.GetTransaction call
    auth,       \* a client credentials handler, its token cache and the clock
    exec        \* a Client.Execute call

asmVars == <<record, part, meta, rel>>
unionVars == <<coll, un>>
interpVars == <<ctnode, ctnative, msig, marg, mres>>
selVars == <<sel, sl>>
numVars == <<call, ret>>
respVars == <<resp, got>>
clientVars == <<stream, txn, auth, exec>>

vars == <<asmVars, unionVars, interpVars, selVars, numVars, readers, respVars, clientVars>>

(***************************************************************************)
(* Bounds of the model.                                                    *)
(***************************************************************************)
MaxRows == 2
MaxPhysCols == 2
MaxSigLen == 2
MaxRels == 3
MaxArgs == 4
\* the width of a machine word of NewBigInt128: 64 in the source
WordBits == 4
MaxDigits == 3
MaxDay == 100000

(***************************************************************************)
(* Generic helpers.                                                        *)
(***************************************************************************)
\* Go's nil interface value where a column, relation or partition is expected
None == [ck |-> "none"]

Panic(why) == [ck |-> "panic", rk |-> "panic", vk |-> "panic", why |-> why]

IsPanic(x) == "why" \in DOMAIN x

RECURSIVE SeqsUpTo(_, _)
SeqsUpTo(S, n) ==
    IF n = 0 THEN {<<>>}
    ELSE LET shorter == SeqsUpTo(S, n - 1)
         IN  shorter \cup {Append(s, x) : s \in {t \in shorter : Len(t) = n - 1}, x \in S}

\* The first panic among the sub-columns built by a loop, in loop order.
RECURSIVE FirstPanic(_, _)
FirstPanic(cols, i) ==
    IF i > Len(cols) THEN None
    ELSE IF IsPanic(cols[i]) THEN cols[i]
    ELSE FirstPanic(cols, i + 1)

\* A constructor that loops over sub-columns stops at the first panic.
Guarded(cols, result) ==
    IF IsPanic(FirstPanic(cols, 1)) THEN FirstPanic(cols, 1) ELSE result

RECURSIVE SumSeq(_, _)
SumSeq(s, i) == IF i > Len(s) THEN 0 ELSE s[i] + SumSeq(s, i + 1)

(***************************************************************************)
(* Go values.                                                              *)
(***************************************************************************)
\* reflect.Type values
TypeOf(name) == [vk |-> "type", t |-> name]
UnknownType == TypeOf("Unknown")
BoolType == TypeOf("bool")
CharType == TypeOf("Char")
Int64Type == TypeOf("int64")
Int32Type == TypeOf("int32")
Int128Type == TypeOf("Int128")
Uint128Type == TypeOf("Uint128")
Uint32Type == TypeOf("uint32")
Uint64Type == TypeOf("uint64")
StringType == TypeOf("string")
UnspecifiedType == TypeOf("Unspecified")
AnyListType == TypeOf("[]interface {}")
Uint64ListType == TypeOf("[]uint64")
BigIntType == TypeOf("*big.Int")
TimeType == TypeOf("time.Time")
DecimalType == TypeOf("decimal.Decimal")
RationalType == TypeOf("*big.Rat")
RuneType == TypeOf("int32")
MissingType == TypeOf("Missing")
MixedType == TypeOf("Mixed")

IsType(v) == v.vk = "type"

\* compositors: ConstType and ValueType are distinct named slice types
ConstType(items) == [vk |-> "const", items |-> items]
ValueType(items) == [vk |-> "value", items |-> items]
AnyList(items) == [vk |-> "list", items |-> items]
IsConstType(v) == v.vk = "const"
IsValueType(v) == v.vk = "value"

\* literals: a string, or an integer of Go type gt (rune is int32); a
\* time.Time in UTC is its day since the Unix epoch and the millisecond in it
Str(s) == [vk |-> "string", s |-> s]
IntLit(gt, n) == [vk |-> "int", gt |-> gt, n |-> n]
Time(day, ms) == [vk |-> "time", day |-> day, ms |-> ms]
Slice(t, items) == [vk |-> "slice", t |-> t, items |-> items]
Nil == [vk |-> "nil"]
BigInt(n) == [vk |-> "bigint", n |-> n]
Decimal(m, exp) == [vk |-> "decimal", m |-> m, exp |-> exp]
Rat(num, den) == [vk |-> "rat", num |-> num, den |-> den]
IsStr(v) == v.vk = "string"
IsInt(v, gt) == v.vk = "int" /\ v.gt = gt

(***************************************************************************)
(* Arrow arrays and records (the input of newPartition).                   *)
(***************************************************************************)
PrimArray(t, vals) == [ak |-> "prim", t |-> t, vals |-> vals]
StringArray(svals) == [ak |-> "string", svals |-> svals]
FixedSizeList(len, child) == [ak |-> "list", len |-> len, child |-> child]
StructArray(len, fields) == [ak |-> "struct", len |-> len, fields |-> fields]
OtherArray(len) == [ak |-> "other", len |-> len]

\* arrow.Array.Len()
ArrayLen(a) ==
    CASE a.ak = "prim" -> Len(a.vals)
      [] a.ak = "string" -> Len(a.svals)
      [] OTHER -> a.len

(***************************************************************************)
(* Physical column adapters.                                               *)
(***************************************************************************)
primitiveColumn(t, data) == [ck |-> "primitive", t |-> t, data |-> data]
stringColumn(sdata) == [ck |-> "string", sdata |-> sdata]
listColumn(t, data, ncols) == [ck |-> "list", t |-> t, data |-> data, ncols |-> ncols]
listItemColumn(t, data, cnum, ncols) ==
    [ck |-> "listItem", t |-> t, data |-> data, cnum |-> cnum, ncols |-> ncols]
structColumn(cols) == [ck |-> "struct", cols |-> cols]
unknownColumn(nrows) == [ck |-> "unknown", nrows |-> nrows]
newUnknownColumn(nrows) == unknownColumn(nrows)

\* The element types newListColumn's type switch has a case for.
ListElemTypes == {"float64", "int8", "int16", "int32", "int64", "uint64"}

newListColumn(c) ==
    LET col == c.child
        nrows == c.len
        nvals == ArrayLen(col)
    IN  IF nrows = 0 THEN Panic("divide")      \* ncols := nvals / nrows
        ELSE LET ncols == nvals \div nrows
             IN  IF col.ak = "prim" /\ col.t \in ListElemTypes
                 THEN listColumn(col.t, col.vals, ncols)
                 ELSE IF col.ak = "list"        \* Rational128
                 THEN IF col.child.ak = "prim" /\ col.child.t = "uint64"
                      THEN listColumn("uint64", col.child.vals, 4)
                      ELSE Panic("cast")
                 ELSE newUnknownColumn(nrows)

RECURSIVE newPartitionColumn(_, _)
newStructColumn(c) ==
    LET cols == [i \in 1..Len(c.fields) |-> newPartitionColumn(c.fields[i], c.len)]
    IN  Guarded(cols, structColumn(cols))

newPartitionColumn(a, nrows) ==
    CASE a.ak = "prim" -> primitiveColumn(a.t, a.vals)
      [] a.ak = "string" -> stringColumn(a.svals)
      [] a.ak = "list" -> newListColumn(a)
      [] a.ak = "struct" -> newStructColumn(a)
      [] OTHER -> newUnknownColumn(nrows)

\* Partition.init / newPartition
newPartition(rec) ==
    LET cols == [i \in 1..Len(rec.arrays) |-> newPartitionColumn(rec.arrays[i], rec.nrows)]
    IN  Guarded(cols, [ck |-> "partition", record |-> rec, cols |-> cols])

PartitionNumCols(p) == Len(p.record.arrays)
PartitionNumRows(p) == p.record.nrows

\* A column lookup that yields nil instead of faulting outside the slice
PartitionColumnOrNil(p, rnum) ==
    IF rnum >= 0 /\ rnum < Len(p.cols) THEN p.cols[rnum + 1] ELSE None

\* Partition.Column: p.cols[rnum], an index fault outside the slice
PartitionColumn(p, rnum) ==
    IF rnum >= 0 /\ rnum < Len(p.cols) THEN p.cols[rnum + 1] ELSE Panic("index")

(***************************************************************************)
(* Relation columns: the structs of results.go.                            *)
(***************************************************************************)
charColumn(col) == [ck |-> "char", col |-> col]
dateColumn(col) == [ck |-> "date", col |-> col]
dateTimeColumn(col) == [ck |-> "dateTime", col |-> col]
decimalColumn(bits, col, digits) ==
    [ck |-> "decimal", bits |-> bits, col |-> col, digits |-> digits]
int128Column(col) == [ck |-> "int128", col |-> col]
uint128Column(col) == [ck |-> "uint128", col |-> col]
rationalColumn(bits, col) == [ck |-> "rational", bits |-> bits, col |-> col]
literalColumn(value, nrows) == [ck |-> "literal", value |-> value, nrows |-> nrows]
symbolColumn(sym, nrows) == [ck |-> "symbol", sym |-> sym, nrows |-> nrows]
missingColumn(nrows) == [ck |-> "missing", nrows |-> nrows]
constColumn(cols, nrows) == [ck |-> "const", cols |-> cols, nrows |-> nrows]
valueColumn(cols) == [ck |-> "value", cols |-> cols]
nilColumn(nrows) == [ck |-> "nil", nrows |-> nrows]
unionColumn(cols, nrows, colType) ==
    [ck |-> "union", cols |-> cols, nrows |-> nrows, colType |-> colType]

newLiteralColumn(v, nrows) == literalColumn(v, nrows)
newSymbolColumn(v, nrows) == symbolColumn(v, nrows)
newMissingColumn(nrows) == missingColumn(nrows)
newNilColumn(nrows) == nilColumn(nrows)

\* Column kinds that keep their row count in a field nrows.
FixedRowKinds == {"unknown", "literal", "symbol", "missing", "const", "nil", "union"}
\* Column kinds that wrap one column and report its row count.
WrapperKinds == {"char", "date", "dateTime", "decimal", "int128", "uint128", "rational"}

\* Whether c.NumRows() ends in a runtime panic: an integer division by zero in
\* listColumn / listItemColumn, cols[0] of an empty valueColumn.
RECURSIVE NumRowsPanics(_)
NumRowsPanics(c) ==
    CASE c.ck \in {"list", "listItem"} -> c.ncols = 0
      [] c.ck = "struct" -> Len(c.cols) > 0 /\ NumRowsPanics(c.cols[1])
      [] c.ck = "value" -> Len(c.cols) = 0 \/ NumRowsPanics(c.cols[1])
      [] c.ck \in WrapperKinds -> NumRowsPanics(c.col)
      [] OTHER -> FALSE

\* Column.NumRows of every column struct (-1 where NumRowsPanics).
RECURSIVE NumRows(_)
NumRows(c) ==
    CASE NumRowsPanics(c) -> -1
      [] c.ck = "primitive" -> Len(c.data)
      [] c.ck = "string" -> Len(c.sdata)
      [] c.ck \in {"list", "listItem"} -> Len(c.data) \div c.ncols
      [] c.ck = "struct" -> IF Len(c.cols) = 0 THEN 0 ELSE NumRows(c.cols[1])
      [] c.ck = "value" -> NumRows(c.cols[1])
      [] c.ck \in WrapperKinds -> NumRows(c.col)
      [] c.ck \in FixedRowKinds -> c.nrows

\* Column.Type of every column struct.
Type(c) ==
    CASE c.ck = "primitive" -> TypeOf(c.t)
      [] c.ck = "string" -> StringType
      [] c.ck = "list" -> TypeOf("[]" \o c.t)
      [] c.ck = "listItem" -> TypeOf(c.t)
      [] c.ck \in {"struct", "const", "value"} -> AnyListType
      [] c.ck = "unknown" -> StringType
      [] c.ck = "char" -> RuneType
      [] c.ck \in {"date", "dateTime"} -> TimeType
      [] c.ck = "decimal" -> DecimalType
      [] c.ck \in {"int128", "uint128"} -> BigIntType
      [] c.ck = "rational" -> RationalType
      [] c.ck = "literal" -> c.value
      [] c.ck = "symbol" -> Str(c.sym)
      [] c.ck = "missing" -> MissingType
      [] c.ck = "nil" -> Nil
      [] c.ck = "union" -> c.colType

(***************************************************************************)
(* The interfaces a type assertion col.(I) asks for.  The columns that     *)
(* reach an assertion are partition columns and their sub-columns.         *)
(***************************************************************************)
\* DataColumn[T] / SimpleColumn[T]: Item(int) T
IsDataColumn(c, t) == c.ck \in {"primitive", "listItem"} /\ c.t = t
\* TabularColumn[T]: Item(int) []T, NumCols, Strings; also listColumn[T] itself
IsTabularColumn(c, t) == c.ck = "list" /\ c.t = t
\* Tabular: Column, Columns, GetRow, NumCols, Row, Signature, Strings
IsTabular(c) == c.ck \in {"list", "struct", "const", "value", "partition"}

(***************************************************************************)
(* Text: fmt.Sprintf and asString.                                         *)
(***************************************************************************)
Digits == <<"0", "1", "2", "3", "4", "5", "6", "7", "8", "9">>

RECURSIVE NatStr(_)
NatStr(n) == IF n < 10 THEN Digits[n + 1] ELSE NatStr(n \div 10) \o Digits[(n % 10) + 1]

\* fmt.Sprintf("%v", n) of an integer
IntStr(n) == IF n < 0 THEN "-" \o NatStr(-n) ELSE NatStr(n)

Letters == <<"a", "b", "c", "d", "e", "f", "g", "h">>

\* string(rune(n)), for the code points the model's data uses
Chr(n) == IF n \in 97..104 THEN Letters[n - 96] ELSE "?"

\* strings.Join(elems, sep)
RECURSIVE Join(_, _)
Join(elems, sep) ==
    IF Len(elems) = 0 THEN ""
    ELSE IF Len(elems) = 1 THEN elems[1]
    ELSE elems[1] \o sep \o Join(Tail(elems), sep)

\* time.Time.Format(layout): the layouts the source uses render different
\* texts of the same instant
FormatTime(t, layout) == layout \o "@" \o IntStr(t.day) \o "+" \o IntStr(t.ms)

\* fmt.Sprintf("%v", v)
RECURSIVE Sprintv(_)
Sprintv(v) ==
    CASE v.vk = "int" -> IntStr(v.n)
      [] v.vk = "string" -> v.s
      [] v.vk = "type" -> v.t
      [] v.vk = "nil" -> "<nil>"
      [] v.vk = "time" -> FormatTime(v, "2006-01-02 15:04:05.999999999 -0700 MST")
      [] v.vk \in {"list", "slice"} ->
            "[" \o Join([i \in 1..Len(v.items) |-> Sprintv(v.items[i])], " ") \o "]"
      [] v.vk \in {"const", "value"} ->
            v.vk \o "[" \o Join([i \in 1..Len(v.items) |-> Sprintv(v.items[i])], ", ") \o "]"

asString(v) ==
    CASE IsInt(v, "int32") -> "'" \o Chr(v.n) \o "'"          \* case rune
      [] v.vk = "string" -> "\"" \o v.s \o "\""
      [] v.vk = "time" -> FormatTime(v, "RFC3339")
      [] OTHER -> Sprintv(v)

(***************************************************************************)
(* rel.go: dates.                                                          *)
(***************************************************************************)
dayMillis == 86400000
epochStartDays == 719163

\* A decoding that takes the day number for days since the Unix epoch
DateFromEpochDay(d) == Time(d, 0)

\* DateFromRataDie: time.UnixMilli((d - epochStartDays) * dayMillis).UTC()
DateFromRataDie(d) == Time(d - epochStartDays, 0)

\* DateFromRataMillis: time.UnixMilli(d - epochStartDays * dayMillis).UTC(),
\* the instant split into its day and the millisecond in it
DateFromRataMillis(d) == Time((d \div dayMillis) - epochStartDays, d % dayMillis)

(***************************************************************************)
(* rel.go: 128-bit integers and decimals from two machine words.           *)
(***************************************************************************)
WordBase == 2 ^ WordBits

Words == 0..(WordBase - 1)

\* new(big.Int).SetBits([]big.Word{lo, hi}): the magnitude, not negative
SetBits(lo, hi) == (hi * WordBase) + lo

\* int64(hi) < 0: the sign bit of the high word is set
IsNegativeWord(hi) == hi >= WordBase \div 2

\* The signed value two words hold in two's complement
TwosComplement(lo, hi) ==
    IF IsNegativeWord(hi) THEN SetBits(lo, hi) - (WordBase * WordBase) ELSE SetBits(lo, hi)

\* NewBigInt128: result.Neg(result) when int64(hi) < 0
NewBigInt128(lo, hi) ==
    BigInt(IF IsNegativeWord(hi) THEN -SetBits(lo, hi) ELSE SetBits(lo, hi))

NewBigUint128(lo, hi) == BigInt(SetBits(lo, hi))

\* NewDecimal128: decimal.NewFromBigInt(NewBigInt128(lo, hi), digits)
NewDecimal128(lo, hi, digits) == Decimal(NewBigInt128(lo, hi).n, digits)

(***************************************************************************)
(* Per-row access: Column.Value and Column.String.                         *)
(***************************************************************************)
PanicText == "!panic!"

InRange(i, n) == i >= 0 /\ i < n

\* The first panic among values built by a loop, else the result.
GuardedValue(vals, result) ==
    IF \E i \in 1..Len(vals) : IsPanic(vals[i])
    THEN vals[CHOOSE i \in 1..Len(vals) :
                 IsPanic(vals[i]) /\ \A j \in 1..(i - 1) : ~IsPanic(vals[j])]
    ELSE result

\* The column of a unionColumn that holds row rnum, and the row in it
\* (the loop of unionColumn.Item and unionColumn.String): <<index, row>>,
\* index 0 when rnum is out of range, -1 when a NumRows call panics.
RECURSIVE unionLocate(_, _, _)
unionLocate(cols, i, rnum) ==
    IF i > Len(cols) THEN <<0, rnum>>
    ELSE IF NumRowsPanics(cols[i]) THEN <<-1, rnum>>
    ELSE IF rnum < NumRows(cols[i]) THEN <<i, rnum>>
    ELSE unionLocate(cols, i + 1, rnum - NumRows(cols[i]))

\* var v [2]uint64; col.GetItem(rnum, v[:]) on a listColumn: the two words,
\* a word the column does not fill staying zero
GetPair(c, rnum) ==
    IF c.ncols > 2 \/ \E cnum \in 0..(c.ncols - 1) :
                         ~InRange((rnum * c.ncols) + cnum, Len(c.data))
    THEN Panic("index")
    ELSE [lo |-> IF c.ncols >= 1 THEN c.data[(rnum * c.ncols) + 1] ELSE 0,
          hi |-> IF c.ncols >= 2 THEN c.data[(rnum * c.ncols) + 2] ELSE 0]

\* Column.Value(rnum) (Item where the struct defines Value as Item).
RECURSIVE Value(_, _)
Value(c, rnum) ==
    CASE c.ck = "primitive" ->
            IF InRange(rnum, Len(c.data)) THEN IntLit(c.t, c.data[rnum + 1])
            ELSE Panic("index")
      [] c.ck = "string" ->
            IF InRange(rnum, Len(c.sdata)) THEN Str(c.sdata[rnum + 1])
            ELSE Panic("index")
      [] c.ck = "list" ->
            LET roffs == rnum * c.ncols
            IN  IF \A cnum \in 0..(c.ncols - 1) : InRange(roffs + cnum, Len(c.data))
                THEN Slice(c.t, [i \in 1..c.ncols |-> IntLit(c.t, c.data[roffs + i])])
                ELSE Panic("index")
      [] c.ck = "listItem" ->
            IF InRange((rnum * c.ncols) + c.cnum, Len(c.data))
            THEN IntLit(c.t, c.data[(rnum * c.ncols) + c.cnum + 1])
            ELSE Panic("index")
      [] c.ck \in {"struct", "value"} ->
            LET vals == [i \in 1..Len(c.cols) |-> Value(c.cols[i], rnum)]
            IN  GuardedValue(vals, AnyList(vals))
      [] c.ck = "const" ->                       \* Item: GetItem(0, c.vals)
            LET vals == [i \in 1..Len(c.cols) |-> Value(c.cols[i], 0)]
            IN  GuardedValue(vals, AnyList(vals))
      [] c.ck = "unknown" -> Str("unknown")
      [] c.ck = "char" ->
            LET v == Value(c.col, rnum)
            IN  IF IsPanic(v) THEN v ELSE IntLit("int32", v.n)
      [] c.ck = "date" ->
            LET v == Value(c.col, rnum)
            IN  IF IsPanic(v) THEN v ELSE DateFromRataDie(v.n)
      [] c.ck = "dateTime" ->
            LET v == Value(c.col, rnum)
            IN  IF IsPanic(v) THEN v ELSE DateFromRataMillis(v.n)
      [] c.ck = "decimal" ->
            IF c.bits = 128
            THEN LET w == GetPair(c.col, rnum)
                 IN  IF IsPanic(w) THEN w ELSE NewDecimal128(w.lo, w.hi, c.digits)
            ELSE LET v == Value(c.col, rnum)
                 IN  IF IsPanic(v) THEN v ELSE Decimal(v.n, c.digits)
      [] c.ck = "int128" ->
            LET v == Value(c.col, rnum)
            IN  IF IsPanic(v) THEN v
                ELSE IF Len(v.items) < 2 THEN Panic("index")
                ELSE NewBigInt128(v.items[1].n, v.items[2].n)
      [] c.ck = "uint128" ->
            LET w == GetPair(c.col, rnum)
            IN  IF IsPanic(w) THEN w ELSE NewBigUint128(w.lo, w.hi)
      [] c.ck = "literal" -> c.value
      [] c.ck = "symbol" -> Str(c.sym)
      [] c.ck = "missing" -> Str("missing")
      [] c.ck = "nil" -> Nil
      [] c.ck = "union" ->
            LET at == unionLocate(c.cols, 1, rnum)
            IN  IF at[1] = -1 THEN Panic("index")
                ELSE IF at[1] = 0 THEN Nil      \* rnum out of range
                ELSE Value(c.cols[at[1]], at[2])

\* Column.String(rnum)
RECURSIVE String(_, _)
String(c, rnum) ==
    CASE c.ck = "primitive" ->
            IF InRange(rnum, Len(c.data)) THEN IntStr(c.data[rnum + 1]) ELSE PanicText
      [] c.ck = "string" ->
            IF InRange(rnum, Len(c.sdata)) THEN c.sdata[rnum + 1] ELSE PanicText
      [] c.ck = "list" ->
            LET v == Value(c, rnum)
            IN  IF IsPanic(v) THEN PanicText
                ELSE "(" \o Join([i \in 1..Len(v.items) |-> asString(v.items[i])], ", ") \o ")"
      [] c.ck = "listItem" ->
            LET v == Value(c, rnum)
            IN  IF IsPanic(v) THEN PanicText ELSE asString(v)
      [] c.ck \in {"struct", "value", "const"} ->
            LET strs == [i \in 1..Len(c.cols) |-> String(c.cols[i], rnum)]
            IN  IF \E i \in 1..Len(strs) : strs[i] = PanicText THEN PanicText
                ELSE "(" \o Join(strs, ", ") \o ")"
      [] c.ck = "unknown" -> "unknown"
      [] c.ck = "char" ->
            LET v == Value(c.col, rnum)
            IN  IF IsPanic(v) THEN PanicText ELSE Chr(v.n)
      [] c.ck = "date" ->
            LET v == Value(c, rnum)
            IN  IF IsPanic(v) THEN PanicText ELSE FormatTime(v, "2006-01-02")
      [] c.ck = "dateTime" ->
            LET v == Value(c, rnum)
            IN  IF IsPanic(v) THEN PanicText ELSE FormatTime(v, "RFC3339")
      [] c.ck = "literal" -> asString(c.value)
      [] c.ck = "symbol" -> c.sym
      [] c.ck = "missing" -> "missing"
      [] c.ck = "nil" -> "<nil>"
      [] c.ck = "union" ->
            LET at == unionLocate(c.cols, 1, rnum)
            IN  IF at[1] = -1 THEN PanicText
                ELSE IF at[1] = 0 THEN ""       \* rnum out of range
                ELSE String(c.cols[at[1]], at[2])

(***************************************************************************)
(* Relation assembly: from a metadata element and a partition column to a  *)
(* relation column.                                                        *)
(***************************************************************************)
\* matchPrefix(sig, terms...): every term needs a string, "_" any string
matchPrefix(sig, terms) ==
    /\ Len(sig) >= Len(terms)
    /\ \A i \in 1..Len(terms) :
          /\ IsStr(sig[i])
          /\ (terms[i] = "_" \/ sig[i].s = terms[i])

isBuiltinPrefix(sig) == matchPrefix(sig, <<"rel", "base", "_">>)

CalendarKinds ==
    {"Year", "Month", "Week", "Day", "Hour", "Minute", "Second",
     "Millisecond", "Microsecond", "Nanosecond"}

DecimalBits == {8, 16, 32, 64, 128}

BitsType(bits) == "int" \o IntStr(bits)

\* isConstType: everything but a reflect.Type and a ValueType
isConstType(t) == ~(IsType(t) \/ IsValueType(t))

isRelationPrimitive(t) ==
    t.t \in {"bool", "float16", "float32", "float64", "int8", "int16", "int32",
             "int64", "uint8", "uint16", "uint32", "uint64", "string"}

\* v.(T) succeeds: T an integer type or *big.Int
HoldsType(v, gt) == IF gt = "*big.Int" THEN v.vk = "bigint" ELSE IsInt(v, gt)

\* sig[n].(T) on a 0-based index: the element, or the index / cast panic
ItemAs(sig, n, gt) ==
    IF n >= Len(sig) THEN Panic("index")
    ELSE IF ~HoldsType(sig[n + 1], gt) THEN Panic("cast")
    ELSE sig[n + 1]

\* Tabular.Column(cnum) of the columns a value type is projected from
TabularColumnAt(c, cnum) ==
    CASE c.ck = "list" -> listItemColumn(c.t, c.data, cnum, c.ncols)
      [] OTHER -> IF InRange(cnum, Len(c.cols)) THEN c.cols[cnum + 1] ELSE Panic("index")

newDecimalColumn(vt, c) ==
    LET d == ItemAs(vt, 4, "int64")
        b == ItemAs(vt, 3, "int64")
    IN  IF IsPanic(d) THEN d
        ELSE IF IsPanic(b) THEN b
        ELSE IF b.n \in {8, 16, 32, 64}
        THEN IF IsDataColumn(c, BitsType(b.n)) THEN decimalColumn(b.n, c, -d.n)
             ELSE Panic("cast")
        ELSE IF b.n = 128
        THEN IF IsTabularColumn(c, "uint64") THEN decimalColumn(128, c, -d.n)
             ELSE Panic("cast")
        ELSE IF NumRowsPanics(c) THEN Panic("divide")
        ELSE newUnknownColumn(NumRows(c))

newRationalColumn(c) ==
    IF c.ck = "list" /\ c.t \in {"int8", "int16", "int32", "int64"}
    THEN rationalColumn(IF c.t = "int8" THEN 8 ELSE IF c.t = "int16" THEN 16
                        ELSE IF c.t = "int32" THEN 32 ELSE 64, c)
    ELSE IF c.ck = "list" /\ c.t = "uint64" THEN rationalColumn(128, c)
    ELSE IF NumRowsPanics(c) THEN Panic("divide")
    ELSE newUnknownColumn(NumRows(c))

\* newBuiltinValueColumn: None is Go's nil, "not a recognized builtin"
newBuiltinValueColumn(vt, c, nrows) ==
    IF ~isBuiltinPrefix(vt) THEN None
    ELSE LET kind == vt[3].s
         IN  CASE kind \in {"AutoNumber", "FilePos"} \cup CalendarKinds -> c
               [] kind = "Date" ->
                     IF IsDataColumn(c, "int64") THEN dateColumn(c) ELSE Panic("cast")
               [] kind = "DateTime" ->
                     IF IsDataColumn(c, "int64") THEN dateTimeColumn(c) ELSE Panic("cast")
               [] kind = "FixedDecimal" -> newDecimalColumn(vt, c)
               [] kind = "Hash" ->
                     IF IsTabularColumn(c, "uint64") THEN uint128Column(c) ELSE Panic("cast")
               [] kind = "Rational" -> newRationalColumn(c)
               [] kind = "Missing" -> newMissingColumn(nrows)
               [] OTHER -> None

(***************************************************************************)
(* Constant columns.                                                       *)
(***************************************************************************)
Abs(n) == IF n < 0 THEN -n ELSE n

RECURSIVE GCD(_, _)
GCD(a, b) == IF b = 0 THEN a ELSE GCD(b, a % b)

\* big.NewRat(n, d): the fraction in lowest terms with a positive
\* denominator; a zero denominator panics
NewRat(n, d) ==
    IF d = 0 THEN Panic("divide")
    ELSE LET g == GCD(Abs(n), Abs(d))
             sign == IF d < 0 THEN -1 ELSE 1
         IN  Rat(sign * (n \div g), Abs(d) \div g)

\* The type of ct[n].(intN) / ct[n].(*big.Int) for the declared bit width
TypeOfBits(bits) == IF bits = 128 THEN "*big.Int" ELSE BitsType(bits)

\* newConstDecimalValue: decimal.Zero, which is decimal.New(0, 1), for a bit
\* width that is none of DecimalBits
newConstDecimalValue(ct) ==
    LET d == ItemAs(ct, 4, "int64")
        b == ItemAs(ct, 3, "int64")
        m == ItemAs(ct, 5, TypeOfBits(b.n))
    IN  IF IsPanic(d) THEN d
        ELSE IF IsPanic(b) THEN b
        ELSE IF b.n \notin DecimalBits THEN Decimal(0, 1)
        ELSE IF IsPanic(m) THEN m
        ELSE Decimal(m.n, -d.n)

newConstDecimalColumn(ct, nrows) ==
    LET b == ItemAs(ct, 3, "int64")
    IN  IF IsPanic(b) THEN b
        ELSE IF b.n \notin DecimalBits THEN newUnknownColumn(nrows)
        ELSE LET v == newConstDecimalValue(ct)
             IN  IF IsPanic(v) THEN v ELSE newLiteralColumn(v, nrows)

\* newConstRationalValue: big.NewRat(1, 1) for a bit width that is none of
\* DecimalBits
newConstRationalValue(ct) ==
    LET b == ItemAs(ct, 3, "int64")
        n == ItemAs(ct, 4, TypeOfBits(b.n))
        d == ItemAs(ct, 5, TypeOfBits(b.n))
    IN  IF IsPanic(b) THEN b
        ELSE IF b.n \notin DecimalBits THEN NewRat(1, 1)
        ELSE IF IsPanic(n) THEN n
        ELSE IF IsPanic(d) THEN d
        ELSE NewRat(n.n, d.n)

newConstRationalColumn(ct, nrows) ==
    LET b == ItemAs(ct, 3, "int64")
    IN  IF IsPanic(b) THEN b
        ELSE IF b.n \notin DecimalBits THEN newUnknownColumn(nrows)
        ELSE LET v == newConstRationalValue(ct)
             IN  IF IsPanic(v) THEN v ELSE newLiteralColumn(v, nrows)

\* The value a builtin case of newConstColumn makes of t[3]
builtinLiteral(v, kind) ==
    CASE kind = "Date" -> DateFromRataDie(v.n)
      [] kind = "DateTime" -> DateFromRataMillis(v.n)
      [] OTHER -> v

\* The builtin cases of newConstColumn whose literal is t[3].(T)
constBuiltinLiteral(t, nrows, gt, kind) ==
    LET v == ItemAs(t, 3, gt)
    IN  IF IsPanic(v) THEN v ELSE newLiteralColumn(builtinLiteral(v, kind), nrows)

RECURSIVE newConstColumn(_, _)
newConstColumn(t, nrows) ==
    LET kind == IF isBuiltinPrefix(t.items) THEN t.items[3].s ELSE ""
        cols == [i \in 1..Len(t.items) |->
                    LET v == t.items[i]
                    IN  CASE IsConstType(v) -> newConstColumn(v, nrows)
                          [] IsValueType(v) -> newUnknownColumn(nrows)    \* unexpected
                          [] OTHER -> newLiteralColumn(v, nrows)]
    IN  CASE kind = "AutoNumber" -> constBuiltinLiteral(t.items, nrows, "uint64", kind)
          [] kind = "Date" -> constBuiltinLiteral(t.items, nrows, "int64", kind)
          [] kind = "DateTime" -> constBuiltinLiteral(t.items, nrows, "int64", kind)
          [] kind = "FilePos" -> constBuiltinLiteral(t.items, nrows, "int64", kind)
          [] kind = "FixedDecimal" -> newConstDecimalColumn(t.items, nrows)
          [] kind = "Hash" -> constBuiltinLiteral(t.items, nrows, "*big.Int", kind)
          [] kind = "Rational" -> newConstRationalColumn(t.items, nrows)
          [] kind = "Missing" -> newMissingColumn(nrows)
          [] kind \in CalendarKinds -> constBuiltinLiteral(t.items, nrows, "int64", kind)
          [] OTHER -> Guarded(cols, constColumn(cols, nrows))

(***************************************************************************)
(* Value columns and newRelationColumn.                                    *)
(***************************************************************************)
\* The number of physical sub-columns newTabularValueColumn has consumed
\* before element i of vt: one per reflect.Type and per ValueType.
RECURSIVE tabularNcol(_, _)
tabularNcol(vt, i) ==
    IF i <= 1 THEN 0
    ELSE tabularNcol(vt, i - 1)
         + (IF IsType(vt[i - 1]) \/ IsValueType(vt[i - 1]) THEN 1 ELSE 0)

RECURSIVE newRelationColumn(_, _, _)
RECURSIVE newValueColumn(_, _, _)

\* newSimpleValueColumn: projects a valueColumn from a simple column
newSimpleValueColumn(vt, c, nrows) ==
    LET cols == [i \in 1..Len(vt) |->
                    IF IsValueType(vt[i]) THEN newValueColumn(vt[i], c, nrows)
                    ELSE newRelationColumn(vt[i], c, nrows)]
    IN  Guarded(cols, valueColumn(cols))

\* newTabularValueColumn: projects a valueColumn from a Tabular column
newTabularValueColumn(vt, c, nrows) ==
    LET sub(i) == TabularColumnAt(c, tabularNcol(vt, i))
        cols == [i \in 1..Len(vt) |->
                    CASE IsType(vt[i]) ->
                            IF IsPanic(sub(i)) THEN sub(i)
                            ELSE newRelationColumn(vt[i], sub(i), nrows)
                      [] IsValueType(vt[i]) ->
                            IF IsPanic(sub(i)) THEN sub(i)
                            ELSE newValueColumn(vt[i], sub(i), nrows)
                      [] IsStr(vt[i]) -> newSymbolColumn(vt[i].s, nrows)
                      [] OTHER -> newLiteralColumn(vt[i], nrows)]
    IN  Guarded(cols, valueColumn(cols))

\* newValueColumn: a builtin first, else by the shape of the column
newValueColumn(vt, c, nrows) ==
    LET cc == newBuiltinValueColumn(vt.items, c, nrows)
    IN  IF cc # None THEN cc
        ELSE IF IsTabular(c) THEN newTabularValueColumn(vt.items, c, nrows)
        ELSE newSimpleValueColumn(vt.items, c, nrows)

\* newRelationColumn: the relation column of one metadata element
newRelationColumn(t, col, nrows) ==
    CASE IsType(t) ->
            CASE t = CharType ->
                    IF IsDataColumn(col, "uint32") THEN charColumn(col) ELSE Panic("cast")
              [] t = Int128Type ->
                    IF IsTabularColumn(col, "uint64") THEN int128Column(col)
                    ELSE Panic("cast")
              [] t = Uint128Type ->
                    IF IsTabularColumn(col, "uint64") THEN uint128Column(col)
                    ELSE Panic("cast")
              [] OTHER ->
                    IF isRelationPrimitive(t) THEN col      \* passed through
                    ELSE newUnknownColumn(nrows)
      [] IsConstType(t) -> newConstColumn(t, nrows)
      [] IsValueType(t) -> newValueColumn(t, col, nrows)
      [] IsStr(t) -> newSymbolColumn(t.s, nrows)
      [] OTHER -> newLiteralColumn(t, nrows)     \* constant value other than string

(***************************************************************************)
(* The relation signature: relationType of every metadata element.         *)
(***************************************************************************)
\* builtinType: the type of a builtin value type, Nil if it is no builtin
builtinType(vt) ==
    IF ~isBuiltinPrefix(vt) THEN Nil
    ELSE LET kind == vt[3].s
         IN  CASE kind = "AutoNumber" -> Uint64Type
               [] kind \in {"Date", "DateTime"} -> TimeType
               [] kind = "FixedDecimal" -> DecimalType
               [] kind = "FilePos" -> Int64Type
               [] kind = "Hash" -> BigIntType
               [] kind = "Missing" -> MissingType
               [] kind = "Rational" -> RationalType
               [] kind \in CalendarKinds -> Int64Type
               [] OTHER -> Nil

\* builtinValue: the value of a builtin constant, Nil if it is no builtin
builtinValue(ct) ==
    IF ~isBuiltinPrefix(ct) THEN Nil
    ELSE LET kind == ct[3].s
         IN  CASE kind = "AutoNumber" -> ItemAs(ct, 3, "uint64")
               [] kind = "Date" ->
                     IF IsPanic(ItemAs(ct, 3, "int64")) THEN ItemAs(ct, 3, "int64")
                     ELSE DateFromRataDie(ct[4].n)
               [] kind = "DateTime" ->
                     IF IsPanic(ItemAs(ct, 3, "int64")) THEN ItemAs(ct, 3, "int64")
                     ELSE DateFromRataMillis(ct[4].n)
               [] kind = "FixedDecimal" -> newConstDecimalValue(ct)
               [] kind = "FilePos" -> ItemAs(ct, 3, "int64")
               [] kind = "Hash" -> ItemAs(ct, 3, "*big.Int")
               [] kind = "Missing" -> Str("missing")
               [] kind = "Rational" -> newConstRationalValue(ct)
               [] kind \in CalendarKinds -> ItemAs(ct, 3, "int64")
               [] OTHER -> Nil

\* relationType: the relation type of a metadata element
RECURSIVE relationType(_)
relationType(t) ==
    LET mapped == [i \in 1..Len(t.items) |-> relationType(t.items[i])]
    IN  CASE IsType(t) ->
                IF t = CharType THEN RuneType
                ELSE IF t \in {Int128Type, Uint128Type} THEN BigIntType
                ELSE t
          [] IsConstType(t) ->
                IF builtinValue(t.items) # Nil THEN builtinValue(t.items)
                ELSE GuardedValue(mapped, ConstType(mapped))
          [] IsValueType(t) ->
                IF builtinType(t.items) # Nil THEN builtinType(t.items)
                ELSE GuardedValue(mapped, ValueType(mapped))
          [] OTHER -> t                          \* constant value

(***************************************************************************)
(* baseRelation.                                                           *)
(***************************************************************************)
\* The partition column index baseRelation.init binds element i (0-based)
\* to, having consumed ncols columns so far: r.part.Column(ncols)
\* Binding by signature position instead of by count of columns consumed
nextByPosition(i, ncols) == i

\* The index of the partition column the element at signature position i
\* consumes when ncols partition columns are consumed already
nextPhysical(i, ncols) == ncols

\* The first loop of baseRelation.init.  pidx[i + 1] is the index of the
\* partition column placed at pcols[i], -1 where pcols[i] stays nil; panic
\* when Partition.Column indexes outside the partition's columns.
RECURSIVE placePartitionColumns(_, _, _, _)
placePartitionColumns(m, p, i, acc) ==
    IF i >= Len(m) THEN acc
    ELSE IF isConstType(m[i + 1])
    THEN placePartitionColumns(m, p, i + 1, [acc EXCEPT !.pidx = Append(@, -1)])
    ELSE IF IsPanic(PartitionColumn(p, nextPhysical(i, acc.ncols)))
    THEN [acc EXCEPT !.panic = TRUE]
    ELSE placePartitionColumns(m, p, i + 1,
             [acc EXCEPT !.pidx = Append(@, nextPhysical(i, acc.ncols)),
                         !.ncols = @ + 1])

pcolsOf(m, p) == placePartitionColumns(m, p, 0, [pidx |-> <<>>, ncols |-> 0, panic |-> FALSE])

\* A row count that never takes the fully specialized relation into account
rowCountOfPartition(ncols, p) == PartitionNumRows(p)

\* The row count of a base relation that consumed ncols partition columns
rowCount(ncols, p) == IF ncols = 0 THEN 1 ELSE PartitionNumRows(p)

baseRelation(m, p, cols, nrows) ==
    [rk |-> "base", meta |-> m, part |-> p, sig |-> <<>>, hasSig |-> FALSE,
     cols |-> cols, nrows |-> nrows]

\* baseRelation.init / newBaseRelation
newBaseRelation(p, m) ==
    LET placed == pcolsOf(m, p)
        nrows == rowCount(placed.ncols, p)
        pcol(i) == IF placed.pidx[i] = -1 THEN None
                   ELSE PartitionColumn(p, placed.pidx[i])
        cols == [i \in 1..Len(m) |-> newRelationColumn(m[i], pcol(i), nrows)]
    IN  IF placed.panic THEN Panic("index")
        ELSE Guarded(cols, baseRelation(m, p, cols, nrows))

\* Whether the loop of ensureSignature stops in a runtime panic
signaturePanics(m) == \E j \in 1..Len(m) : IsPanic(relationType(m[j]))

\* r.sig as the loop of ensureSignature leaves it: made of nil elements and
\* filled from the left, up to the element whose relationType panics
filledSignature(m) ==
    [i \in 1..Len(m) |->
        IF \E j \in 1..i : IsPanic(relationType(m[j])) THEN Nil ELSE relationType(m[i])]

\* baseRelation.ensureSignature: the relation after the call
ensureSignature(r) ==
    IF r.hasSig THEN r
    ELSE [r EXCEPT !.sig = filledSignature(r.meta), !.hasSig = TRUE]

\* baseRelation.Signature: the value the call returns
baseSignature(r) ==
    IF r.hasSig THEN r.sig
    ELSE IF signaturePanics(r.meta) THEN Panic("cast")
    ELSE filledSignature(r.meta)

derivedRelation(sig, cols) == [rk |-> "derived", sig |-> sig, cols |-> cols]
newDerivedRelation(sig, cols) == derivedRelation(sig, cols)

\* Relation.NumCols
RelNumCols(r) == IF r.rk = "base" THEN Len(r.meta) ELSE Len(r.cols)

\* Whether Relation.NumRows panics: derivedRelation reads r.cols[0]
RelNumRowsPanics(r) ==
    r.rk = "derived" /\ (Len(r.cols) = 0 \/ NumRowsPanics(r.cols[1]))

\* Relation.NumRows (-1 where RelNumRowsPanics)
RelNumRows(r) ==
    IF r.rk = "base" THEN r.nrows
    ELSE IF RelNumRowsPanics(r) THEN -1
    ELSE NumRows(r.cols[1])

\* Whether Relation.Signature ends in a runtime panic
RelSignaturePanics(r) == r.rk = "base" /\ ~r.hasSig /\ signaturePanics(r.meta)

\* Relation.Signature: the value the call returns
RelSignature(r) == IF r.rk = "base" THEN baseSignature(r) ELSE r.sig

\* Relation.Column
RelColumn(r, cnum) ==
    IF InRange(cnum, Len(r.cols)) THEN r.cols[cnum + 1] ELSE Panic("index")

(***************************************************************************)
(* Union of relations.                                                     *)
(***************************************************************************)
\* a != b on interface values: a run-time fault when both hold the same
\* slice type, which is not comparable
Uncomparable(a, b) ==
    /\ a.vk = b.vk
    /\ a.vk \in {"list", "const", "value", "slice"}
    /\ a.vk = "slice" => a.t = b.t

\* The type of the first column whatever the others report
firstColType(cols, n) == Type(cols[1])

\* The loop of unionColumn.init over the first n columns: the type they
\* share, MixedType when two differ
RECURSIVE unionColType(_, _)
unionColType(cols, n) ==
    IF n = 1 THEN Type(cols[1])
    ELSE LET sofar == unionColType(cols, n - 1)
         IN  IF IsPanic(sofar) THEN sofar
             ELSE IF Uncomparable(sofar, Type(cols[n])) THEN Panic("uncomparable")
             ELSE IF sofar # Type(cols[n]) THEN MixedType
             ELSE sofar

\* unionColumn.init / newUnionColumn
newUnionColumn(cols) ==
    IF Len(cols) = 0 THEN Panic("index")
    ELSE IF \E i \in 1..Len(cols) : NumRowsPanics(cols[i]) THEN Panic("index")
    ELSE IF IsPanic(unionColType(cols, Len(cols))) THEN unionColType(cols, Len(cols))
    ELSE unionColumn(cols, SumSeq([i \in 1..Len(cols) |-> NumRows(cols[i])], 1),
                     unionColType(cols, Len(cols)))

RECURSIVE maxNumColsFrom(_, _)
maxNumColsFrom(rs, i) ==
    IF i > Len(rs) THEN 0
    ELSE LET rest == maxNumColsFrom(rs, i + 1)
         IN  IF rest < RelNumCols(rs[i]) THEN RelNumCols(rs[i]) ELSE rest

maxNumCols(rs) == maxNumColsFrom(rs, 1)

\* The column a relation contributes to column cnum of a union
unionInput(r, cnum) ==
    IF cnum < RelNumCols(r) THEN RelColumn(r, cnum)
    ELSE IF RelNumRowsPanics(r) THEN Panic("index")
    ELSE newNilColumn(RelNumRows(r))

makeUnionColumn(rels, cnum) ==
    LET cols == [i \in 1..Len(rels) |-> unionInput(rels[i], cnum)]
    IN  Guarded(cols, newUnionColumn(cols))

\* The loop of newUnionRelation: a derived relation of union columns
unionOfColumns(rs) ==
    LET ncols == maxNumCols(rs)
        cols == [c \in 1..ncols |-> makeUnionColumn(rs, c - 1)]
        sig == [c \in 1..ncols |-> Type(cols[c])]
    IN  IF IsPanic(FirstPanic(cols, 1)) THEN FirstPanic(cols, 1)
        ELSE newDerivedRelation(sig, cols)

\* A union that wraps a single relation in union columns too
unionAlways(rs) == unionOfColumns(rs)

newUnionRelation(rs) == IF Len(rs) = 1 THEN rs[1] ELSE unionOfColumns(rs)

(***************************************************************************)
(* The type interpreter of metadata.go over the protobuf metadata tree.    *)
(***************************************************************************)
\* pb.RelType by tag, pb.ConstantType and pb.PrimitiveValue
PrimitiveTypeNode(p) == [tag |-> "PRIMITIVE_TYPE", prim |-> p]
ConstantTypeNode(c) == [tag |-> "CONSTANT_TYPE", const |-> c]
ValueTypeNode(argTypes) == [tag |-> "VALUE_TYPE", argTypes |-> argTypes]
UnspecifiedNode == [tag |-> "UNSPECIFIED_KIND"]
ConstantType(relType, args) == [relType |-> relType, args |-> args]
IntVal(kind, n) == [pv |-> kind, n |-> n]
StringVal(str) == [pv |-> "StringVal", s |-> str]
UnsetVal == [pv |-> "unset"]

Bool(b) == [vk |-> "bool", b |-> b]

asNativePrimitiveType(p) ==
    CASE p = "BOOL" -> BoolType
      [] p = "CHAR" -> CharType
      [] p = "FLOAT_16" -> TypeOf("float16")
      [] p = "FLOAT_32" -> TypeOf("float32")
      [] p = "FLOAT_64" -> TypeOf("float64")
      [] p = "INT_8" -> TypeOf("int8")
      [] p = "INT_16" -> TypeOf("int16")
      [] p = "INT_32" -> Int32Type
      [] p = "INT_64" -> Int64Type
      [] p = "INT_128" -> Int128Type
      [] p = "UINT_8" -> TypeOf("uint8")
      [] p = "UINT_16" -> TypeOf("uint16")
      [] p = "UINT_32" -> Uint32Type
      [] p = "UINT_64" -> Uint64Type
      [] p = "UINT_128" -> Uint128Type
      [] p = "STRING" -> StringType
      [] p = "UNSPECIFIED_TYPE" -> UnspecifiedType
      [] OTHER -> UnknownType

\* asNativeConstValue on the integer, character, boolean and string values
\* and on a value that is not set
asNativeConstValue(pv) ==
    CASE pv.pv = "Int64Val" -> IntLit("int64", pv.n)
      [] pv.pv = "Int32Val" -> IntLit("int32", pv.n)
      [] pv.pv = "Int16Val" -> IntLit("int16", pv.n)
      [] pv.pv = "Int8Val" -> IntLit("int8", pv.n)
      [] pv.pv = "Uint64Val" -> IntLit("uint64", pv.n)
      [] pv.pv = "Uint32Val" -> IntLit("uint32", pv.n)
      [] pv.pv = "Uint16Val" -> IntLit("uint16", pv.n)
      [] pv.pv = "Uint8Val" -> IntLit("uint8", pv.n)
      [] pv.pv = "CharVal" -> IntLit("int32", pv.n)
      [] pv.pv = "BoolVal" -> Bool(pv.n = 1)
      [] pv.pv = "StringVal" -> Str(pv.s)
      [] pv.pv = "unset" -> UnknownType

asNativeConstPrimitiveType(c) ==
    CASE Len(c.args) = 0 -> UnknownType
      [] Len(c.args) = 1 -> asNativeConstValue(c.args[1])
      [] OTHER -> AnyList([i \in 1..Len(c.args) |-> asNativeConstValue(c.args[i])])

\* Reading the arguments from the back
takeBack(args) == IF Len(args) = 0 THEN Panic("index") ELSE args[Len(args)]

\* args[0]: the literal at the front, a fault when no argument is left
takeFront(args) == IF Len(args) = 0 THEN Panic("index") ELSE args[1]

\* mergeConstValueArgs: the result is [sig, args], the merged compositor and
\* the unused arguments, or the fault of reading past the arguments
RECURSIVE mergeConstValueArgs(_, _)
RECURSIVE mergeItems(_, _, _)
mergeItems(items, args, i) ==
    IF i > Len(items) THEN [sig |-> ConstType(items), args |-> args]
    ELSE LET v == items[i]
         IN  CASE IsType(v) ->
                    IF IsPanic(takeFront(args)) THEN Panic("index")
                    ELSE mergeItems([items EXCEPT ![i] = takeFront(args)], Tail(args), i + 1)
               [] IsConstType(v) ->
                    LET r == mergeConstValueArgs(v, AnyList(args))
                    IN  IF IsPanic(r) THEN r
                        ELSE mergeItems([items EXCEPT ![i] = r.sig], r.args, i + 1)
               [] IsValueType(v) ->
                    \* this should have been converted to a const by caller
                    IF Len(args) = 0 THEN Panic("slice")
                    ELSE mergeItems([items EXCEPT ![i] = UnknownType], Tail(args), i + 1)
               [] OTHER -> mergeItems(items, args, i + 1)

mergeConstValueArgs(sig, arg) ==
    mergeItems(sig.items, IF arg.vk = "list" THEN arg.items ELSE <<arg>>, 1)

RECURSIVE asNativeConstValueType(_)
RECURSIVE asNativeConstType(_)
RECURSIVE asNativeValueType(_)
RECURSIVE asNativeType(_)
RECURSIVE asSignature(_)

\* The element of the compositor a constant value type makes of the
\* argument type rt
constSlot(rt) ==
    CASE rt.tag = "CONSTANT_TYPE" -> asNativeConstType(rt.const)
      [] rt.tag = "PRIMITIVE_TYPE" -> asNativePrimitiveType(rt.prim)
      [] rt.tag = "VALUE_TYPE" ->
            \* a value type under a const is interpreted as a const
            LET vt == asNativeValueType(rt)
            IN  IF IsPanic(vt) THEN vt ELSE ConstType(vt.items)
      [] OTHER -> UnknownType

asNativeConstValueType(c) ==
    LET t == c.relType.argTypes
        sig == [i \in 1..Len(t) |-> constSlot(t[i])]
        merged == mergeConstValueArgs(ConstType(sig), asNativeConstPrimitiveType(c))
    IN  IF IsPanic(FirstPanic(sig, 1)) THEN FirstPanic(sig, 1)
        ELSE IF IsPanic(merged) THEN merged
        ELSE merged.sig

asNativeConstType(c) ==
    CASE c.relType.tag = "PRIMITIVE_TYPE" -> asNativeConstPrimitiveType(c)
      [] c.relType.tag = "VALUE_TYPE" -> asNativeConstValueType(c)
      [] OTHER -> UnknownType

asNativeValueType(vt) ==
    LET sig == asSignature(vt.argTypes)
    IN  IF IsPanic(FirstPanic(sig, 1)) THEN FirstPanic(sig, 1) ELSE ValueType(sig)

asNativeType(rt) ==
    CASE rt.tag = "PRIMITIVE_TYPE" -> asNativePrimitiveType(rt.prim)
      [] rt.tag = "CONSTANT_TYPE" -> asNativeConstType(rt.const)
      [] rt.tag = "VALUE_TYPE" -> asNativeValueType(rt)
      [] OTHER -> UnknownType

asSignature(args) == [i \in 1..Len(args) |-> asNativeType(args[i])]

(***************************************************************************)
(* Inputs of relation assembly: arrow records and metadata signatures.     *)
(***************************************************************************)
ArrowKinds == <<"int64", "uint32", "string", "list", "struct0", "struct1", "other">>

\* Array number c (0-based) of a record of n rows; the data tell the
\* column and the row.
MakeArray(kind, c, n) ==
    CASE kind = "int64" -> PrimArray("int64", [r \in 1..n |-> (10 * (c + 1)) + r])
      [] kind = "uint32" -> PrimArray("uint32", [r \in 1..n |-> 96 + r])
      [] kind = "string" -> StringArray([r \in 1..n |-> "s" \o IntStr((10 * (c + 1)) + r)])
      [] kind = "list" ->
            FixedSizeList(n, PrimArray("uint64", [k \in 1..(2 * n) |-> (100 * (c + 1)) + k]))
      [] kind = "struct0" -> StructArray(n, <<>>)
      [] kind = "struct1" ->
            StructArray(n, <<PrimArray("int64", [r \in 1..n |-> (50 * (c + 1)) + r])>>)
      [] kind = "other" -> OtherArray(n)

MakeRecord(n, kinds) ==
    [nrows |-> n, arrays |-> [i \in 1..Len(kinds) |-> MakeArray(kinds[i], i - 1, n)]]

NoRecord == [nrows |-> -1, arrays |-> <<>>]

\* The metadata elements relations are assembled from.
SigElems ==
    << Int64Type,
       CharType,
       UnknownType,
       Str("foo"),
       ConstType(<<Str("a"), IntLit("int64", 1)>>),
       ValueType(<<Str("rel"), Str("base"), Str("Date"), Int64Type>>),
       ValueType(<<Str("rel"), Str("base"), Str("Zzz"), Int64Type>>),
       ValueType(<<Str("v"), Int64Type>>),
       ValueType(<<Str("rel"), Str("base"), Str("FixedDecimal"),
                   IntLit("int64", 24), IntLit("int64", 2), Int64Type>>),
       ConstType(<<Str("rel"), Str("base"), Str("FixedDecimal"),
                   IntLit("int64", 24), IntLit("int64", 2), IntLit("int64", 5)>>),
       ConstType(<<Str("rel"), Str("base"), Str("Rational"),
                   IntLit("int64", 24), IntLit("int64", 1), IntLit("int64", 2)>>),
       StringType >>

MakeSig(idx) == [i \in 1..Len(idx) |-> SigElems[idx[i]]]

(***************************************************************************)
(* The state before a call is made.                                        *)
(***************************************************************************)
NumReaders == 2

Readers == 1..NumReaders

\* no Select call made
NoSelect == [called |-> FALSE, terms |-> <<>>, out |-> <<>>, panic |-> FALSE]

\* no Slice call made
NoSlice == [called |-> FALSE, src |-> 0, lo |-> 0, hi |-> <<>>, out |-> None]

\* every reader outside an accessor
NoReaders == [k \in Readers |-> [op |-> "none", pc |-> "idle", i |-> 0, out |-> None]]

\* no response decoded
NoResponse ==
    [decoded |-> FALSE, metadata |-> FALSE, partitions |-> [set |-> FALSE, ids |-> {}],
     relations |-> [set |-> FALSE, rels |-> <<>>], built |-> 0, calls |-> 0, hits |-> 0,
     visited |-> <<>>]

\* no Relations call made
NoRelations == [called |-> FALSE, args |-> <<>>, out |-> <<>>, panic |-> FALSE]

\* no part of a multipart response opened
NoStream == [pc |-> "closed", recs |-> <<>>, cur |-> 0, held |-> 0, refs |-> <<>>,
             out |-> None, uses |-> 0]

\* no GetTransaction call made
Outputs == <<"results", "metadata", "problems">>

OutputSet == {Outputs[i] : i \in 1..Len(Outputs)}

NoTransaction ==
    [pc |-> "idle", opts |-> <<>>, state |-> "", next |-> 1, wg |-> 0,
     fetch |-> [o \in OutputSet |-> "none"], started |-> [o \in OutputSet |-> 0],
     field |-> [o \in OutputSet |-> "nil"], err |-> [o \in OutputSet |-> "nil"],
     out |-> None]

\* no client made
\* A nil *AccessToken
NoToken == [nil |-> TRUE]

\* The client before NewClient: no handler, an empty token cache on disk
NoAuth ==
    [pc |-> "none", handler |-> [accessToken |-> NoToken],
     disk |-> [readable |-> TRUE, writable |-> TRUE, token |-> NoToken],
     now |-> 0, reads |-> 0, reqs |-> 0, lookups |-> 0,
     prev |-> NoToken, obtained |-> NoToken, last |-> None]

\* no Execute call made
\* Client.Execute not called: no request made, nothing observed
NoExecute ==
    [pc |-> "idle", status |-> 0, state |-> "", source |-> "none", polls |-> 0,
     asked |-> <<>>, out |-> None]

(***************************************************************************)
(* Spec: one partition and its metadata signature are delivered, and the   *)
(* base relation is assembled from them.                                   *)
(***************************************************************************)
Idle ==
    /\ record = NoRecord /\ part = None /\ meta = <<>> /\ rel = None
    /\ coll = <<>> /\ un = None
    /\ ctnode = None /\ ctnative = None
    /\ msig = None /\ marg = None /\ mres = None
    /\ sel = NoSelect /\ sl = NoSlice
    /\ call = None /\ ret = None
    /\ readers = NoReaders
    /\ resp = NoResponse /\ got = NoRelations
    /\ stream = NoStream /\ txn = NoTransaction /\ auth = NoAuth /\ exec = NoExecute

Init == Idle

KindSeqs == SeqsUpTo({ArrowKinds[k] : k \in 1..Len(ArrowKinds)}, MaxPhysCols)

SigIdxSeqs == SeqsUpTo(1..Len(SigElems), MaxSigLen)

\* readTransactionPartition / asSignatureMap: the response is decoded
Deliver ==
    /\ record = NoRecord /\ msig = None /\ ctnode = None /\ coll = <<>>
    /\ \E n \in 0..MaxRows : \E kinds \in KindSeqs : \E idx \in SigIdxSeqs :
          /\ record' = MakeRecord(n, kinds)
          /\ part' = newPartition(MakeRecord(n, kinds))
          /\ meta' = MakeSig(idx)
    /\ UNCHANGED <<rel, coll, un, ctnode, ctnative, msig, marg, mres>>
    /\ UNCHANGED <<selVars, numVars, readers, respVars>>
    /\ UNCHANGED clientVars

\* TransactionResponse.Relation: newBaseRelation(partition, signature)
Assemble ==
    /\ record # NoRecord /\ ~IsPanic(part) /\ rel = None
    /\ rel' = newBaseRelation(part, meta)
    /\ UNCHANGED <<record, part, meta, coll, un, ctnode, ctnative, msig, marg, mres>>
    /\ UNCHANGED <<selVars, numVars, readers, respVars>>
    /\ UNCHANGED clientVars

Next == Deliver \/ Assemble

Spec == Init /\ [][Next]_vars

(***************************************************************************)
(* Properties of relation assembly.                                        *)
(***************************************************************************)
\* An element that is a top-level runtime type or value-type compositor
NonConstElem(e) == e.vk \in {"type", "value"}

NonConstCount(m) == Cardinality({k \in 1..Len(m) : NonConstElem(m[k])})

\* The number of non-constant elements left of element i (1-based)
NonConstBefore(m, i) == Cardinality({k \in 1..(i - 1) : NonConstElem(m[k])})

Assembled == rel # None

AssembledOk == rel # None /\ ~IsPanic(rel)

\* C1 (as amended): a base relation's NumRows() is 1 when its metadata
\* signature has no non-constant element, and the partition's row count
\* otherwise; the partition's row count may itself be 1.
C1_RowCount ==
    AssembledOk =>
        RelNumRows(rel) = IF NonConstCount(meta) = 0 THEN 1 ELSE PartitionNumRows(part)

\* C1 as stated: NumRows() is 1 if and only if there is no non-constant
\* element, and the partition's row count otherwise.
C1_RowCountIff ==
    AssembledOk =>
        /\ (RelNumRows(rel) = 1) <=> (NonConstCount(meta) = 0)
        /\ NonConstCount(meta) > 0 => RelNumRows(rel) = PartitionNumRows(part)

C1_Witness ==
    /\ AssembledOk
    /\ NonConstCount(meta) > 0
    /\ PartitionNumRows(part) = 1
    /\ RelNumRows(rel) = 1

\* C2: the j-th non-constant element of the metadata signature is bound
\* to physical column j, a constant element to no physical column, and the
\* number of physical columns consumed is the number of non-constant
\* elements; a pass-through element's column is that physical column.
C2_Binding ==
    Assembled =>
        LET placed == pcolsOf(meta, part)
        IN  /\ \A i \in 1..Len(placed.pidx) :
                  placed.pidx[i] = IF NonConstElem(meta[i])
                                   THEN NonConstBefore(meta, i) ELSE -1
            /\ ~placed.panic =>
                  /\ Len(placed.pidx) = Len(meta)
                  /\ placed.ncols = NonConstCount(meta)
            /\ AssembledOk =>
                  \A i \in 1..Len(meta) :
                      meta[i] = Int64Type =>
                          rel.cols[i] = PartitionColumn(part, NonConstBefore(meta, i))

C2_Witness ==
    /\ AssembledOk
    /\ PartitionNumCols(part) = 2
    /\ Len(meta) = 2
    /\ ~NonConstElem(meta[1])
    /\ meta[2] = Int64Type
    /\ rel.cols[2] = PartitionColumn(part, 0)

\* An element whose shape is not recognized: an unknown primitive type, a
\* builtin value type with an unknown discriminator, or a physical column
\* whose storage is not what the declared type expects.
C3_Unrecognized(i) ==
    LET e == meta[i]
        col == PartitionColumn(part, NonConstBefore(meta, i))
    IN  \/ IsType(e) /\ e \notin {CharType, Int128Type, Uint128Type}
                     /\ ~isRelationPrimitive(e)
        \/ IsValueType(e) /\ isBuiltinPrefix(e.items)
                          /\ e.items[3] \notin {Str("Date"), Str("FixedDecimal")}
        \/ e = CharType /\ ~IsDataColumn(col, "uint32")
        \/ IsValueType(e) /\ isBuiltinPrefix(e.items) /\ e.items[3] = Str("Date")
                          /\ ~IsDataColumn(col, "int64")

\* C3 as stated: when the number of non-constant elements equals the
\* partition's physical column count, newBaseRelation returns a relation
\* without a runtime fault, and every unrecognized element becomes a column
\* that renders "unknown" on every row and reports the relation's row count.
C3_NoFault ==
    (Assembled /\ NonConstCount(meta) = PartitionNumCols(part)) =>
        /\ ~IsPanic(rel)
        /\ \A i \in 1..Len(meta) :
              C3_Unrecognized(i) =>
                  /\ NumRows(rel.cols[i]) = RelNumRows(rel)
                  /\ \A r \in 0..(RelNumRows(rel) - 1) :
                        String(rel.cols[i], r) = "unknown"

\* The partition reduced to its first k physical columns
TrimPartition(p, k) ==
    newPartition([nrows |-> p.record.nrows, arrays |-> SubSeq(p.record.arrays, 1, k)])

C5_ColumnRows ==
    AssembledOk =>
        /\ Len(rel.cols) = Len(meta)
        /\ \A i \in 1..Len(rel.cols) :
              /\ ~NumRowsPanics(rel.cols[i])
              /\ NumRows(rel.cols[i]) = RelNumRows(rel)

(***************************************************************************)
(* MergeSpec: mergeConstValueArgs applied to a constant-type compositor    *)
(* and an argument.                                                        *)
(***************************************************************************)
Literals == <<IntLit("int64", 1), IntLit("int64", 2), Str("x")>>

LiteralSeqs == SeqsUpTo(1..Len(Literals), MaxArgs)

MakeArgs(idx) == [i \in 1..Len(idx) |-> Literals[idx[i]]]

Compositors ==
    << ConstType(<<Int64Type>>),
       ConstType(<<Str("a"), Int64Type, StringType>>),
       ConstType(<<ConstType(<<Int64Type, Int64Type>>), StringType>>),
       ConstType(<<Int64Type, ConstType(<<Str("b"), ConstType(<<CharType>>)>>), Int64Type>>),
       ConstType(<<Str("a"), IntLit("int64", 1)>>),
       ConstType(<<ValueType(<<Int64Type>>), Int64Type>>),
       ConstType(<<>>),
       ConstType(<<AnyList(<<IntLit("int64", 1), IntLit("int64", 2)>>), UnknownType>>) >>

\* asNativeConstValueType hands over the compositor and the argument: a
\* list of literals, or one literal that is not a list
StartMerge ==
    /\ msig = None /\ record = NoRecord /\ ctnode = None /\ coll = <<>>
    /\ \E k \in 1..Len(Compositors) :
          /\ msig' = Compositors[k]
          /\ \/ \E idx \in LiteralSeqs : marg' = AnyList(MakeArgs(idx))
             \/ \E l \in 1..Len(Literals) : marg' = Literals[l]
    /\ UNCHANGED <<record, part, meta, rel, coll, un, ctnode, ctnative, mres>>
    /\ UNCHANGED <<selVars, numVars, readers, respVars>>
    /\ UNCHANGED clientVars

Merge ==
    /\ msig # None /\ mres = None
    /\ mres' = mergeConstValueArgs(msig, marg)
    /\ UNCHANGED <<record, part, meta, rel, coll, un, ctnode, ctnative, msig, marg>>
    /\ UNCHANGED <<selVars, numVars, readers, respVars>>
    /\ UNCHANGED clientVars

MergeNext == StartMerge \/ Merge

MergeSpec == Init /\ [][MergeNext]_vars

\* The runtime-type slots of a compositor, those of nested constant-type
\* compositors included
RECURSIVE SlotCount(_)
RECURSIVE SlotsIn(_, _)
SlotsIn(items, n) ==
    IF n = 0 THEN 0
    ELSE SlotsIn(items, n - 1) +
         (IF IsType(items[n]) THEN 1
          ELSE IF IsConstType(items[n]) THEN SlotCount(items[n]) ELSE 0)

SlotCount(c) == SlotsIn(c.items, Len(c.items))

\* The compositor with its i-th slot, in depth-first order from slot
\* off + 1 on, replaced by literal i
RECURSIVE FilledFrom(_, _, _)
FilledFrom(c, lits, off) ==
    ConstType([i \in 1..Len(c.items) |->
        LET e == c.items[i]
            o == off + SlotsIn(c.items, i - 1)
        IN  IF IsType(e) THEN lits[o + 1]
            ELSE IF IsConstType(e) THEN FilledFrom(e, lits, o)
            ELSE e])

RECURSIVE NoValueTypeIn(_)
NoValueTypeIn(c) ==
    \A i \in 1..Len(c.items) :
        /\ ~IsValueType(c.items[i])
        /\ IsConstType(c.items[i]) => NoValueTypeIn(c.items[i])

ArgsOf(arg) == IF arg.vk = "list" THEN arg.items ELSE <<arg>>

Merged == mres # None

ConstString(str) == ConstantTypeNode(ConstantType(PrimitiveTypeNode("STRING"), <<StringVal(str)>>))

\* The argument types of the constant value-type nodes interpreted
ArgTypeLists ==
    << <<PrimitiveTypeNode("INT_64")>>,
       <<ConstString("a"), PrimitiveTypeNode("INT_64")>>,
       <<ValueTypeNode(<<PrimitiveTypeNode("INT_64")>>), PrimitiveTypeNode("STRING")>>,
       <<ValueTypeNode(<<ConstString("a"), ValueTypeNode(<<PrimitiveTypeNode("INT_64")>>)>>)>>,
       <<ConstantTypeNode(ConstantType(ValueTypeNode(<<PrimitiveTypeNode("INT_64")>>),
                                       <<IntVal("Int64Val", 7)>>)),
         PrimitiveTypeNode("INT_64")>>,
       <<PrimitiveTypeNode("CHAR"),
         ValueTypeNode(<<PrimitiveTypeNode("INT_64"), PrimitiveTypeNode("INT_64")>>)>>,
       <<UnspecifiedNode>>,
       <<>> >>

LiteralVals == <<IntVal("Int64Val", 1), IntVal("CharVal", 98), StringVal("x")>>

LiteralValSeqs == SeqsUpTo(1..Len(LiteralVals), MaxArgs)

MakeVals(idx) == [i \in 1..Len(idx) |-> LiteralVals[idx[i]]]

\* asSignature reaches a constant node of the metadata
ReceiveConstant ==
    /\ ctnode = None /\ record = NoRecord /\ msig = None /\ coll = <<>>
    /\ \/ \E k \in 1..Len(ArgTypeLists) : \E idx \in LiteralValSeqs :
             ctnode' = ConstantType(ValueTypeNode(ArgTypeLists[k]), MakeVals(idx))
       \/ \E idx \in LiteralValSeqs :
             ctnode' = ConstantType(PrimitiveTypeNode("INT_64"), MakeVals(idx))
       \/ \E idx \in LiteralValSeqs :
             ctnode' = ConstantType(UnspecifiedNode, MakeVals(idx))
    /\ UNCHANGED <<record, part, meta, rel, coll, un, ctnative, msig, marg, mres>>
    /\ UNCHANGED <<selVars, numVars, readers, respVars>>
    /\ UNCHANGED clientVars

InterpretConstant ==
    /\ ctnode # None /\ ctnative = None
    /\ ctnative' = asNativeConstType(ctnode)
    /\ UNCHANGED <<record, part, meta, rel, coll, un, ctnode, msig, marg, mres>>
    /\ UNCHANGED <<selVars, numVars, readers, respVars>>
    /\ UNCHANGED clientVars

InterpNext == ReceiveConstant \/ InterpretConstant

InterpSpec == Init /\ [][InterpNext]_vars

\* The compositor of a constant value-type node in which every nested
\* value type, at any depth, is a constant-type compositor
RECURSIVE ConstDeep(_)
ConstDeep(argTypes) ==
    [i \in 1..Len(argTypes) |->
        LET rt == argTypes[i]
        IN  CASE rt.tag = "PRIMITIVE_TYPE" -> asNativePrimitiveType(rt.prim)
              [] rt.tag = "VALUE_TYPE" -> ConstType(ConstDeep(rt.argTypes))
              [] rt.tag = "CONSTANT_TYPE" ->
                    IF rt.const.relType.tag = "VALUE_TYPE"
                    THEN FilledFrom(ConstType(ConstDeep(rt.const.relType.argTypes)),
                                    [j \in 1..Len(rt.const.args) |->
                                        asNativeConstValue(rt.const.args[j])], 0)
                    ELSE asNativeConstPrimitiveType(rt.const)
              [] OTHER -> UnknownType]

LiteralTail(c) == [j \in 1..Len(c.args) |-> asNativeConstValue(c.args[j])]

Interpreted == ctnative # None

\* C7 as stated: when a constant node is interpreted, every value-type
\* compositor nested inside it, at any depth, is resolved as a constant-type
\* compositor whose runtime-type slots are filled in order from the
\* remaining literal tail; none stays a value type or becomes a placeholder.
C7_NestedResolved ==
    (/\ Interpreted
     /\ ctnode.relType.tag = "VALUE_TYPE"
     /\ Len(ctnode.args) >= SlotCount(ConstType(ConstDeep(ctnode.relType.argTypes)))) =>
        /\ ~IsPanic(ctnative)
        /\ ctnative = FilledFrom(ConstType(ConstDeep(ctnode.relType.argTypes)),
                                 LiteralTail(ctnode), 0)

\* The value types nested in the argument types no deeper than depth
RECURSIVE ValueDepthAtMost(_, _)
ValueDepthAtMost(argTypes, depth) ==
    \A i \in 1..Len(argTypes) :
        argTypes[i].tag = "VALUE_TYPE" =>
            /\ depth > 0
            /\ ValueDepthAtMost(argTypes[i].argTypes, depth - 1)

\* A value type directly under the constant node is resolved as a constant
C7_DirectlyNestedResolved ==
    (/\ Interpreted
     /\ ctnode.relType.tag = "VALUE_TYPE"
     /\ ValueDepthAtMost(ctnode.relType.argTypes, 1)
     /\ Len(ctnode.args) >= SlotCount(ConstType(ConstDeep(ctnode.relType.argTypes)))) =>
        /\ ~IsPanic(ctnative)
        /\ ctnative = FilledFrom(ConstType(ConstDeep(ctnode.relType.argTypes)),
                                 LiteralTail(ctnode), 0)

(***************************************************************************)
(* UnionSpec: relations are collected and the collection is unioned.       *)
(***************************************************************************)
\* The partitions and metadata signatures of the relations collected
UnionInputs ==
    << [n |-> 2, kinds |-> <<"int64">>, m |-> <<Int64Type>>],
       [n |-> 1, kinds |-> <<>>, m |-> <<Str("foo")>>],
       [n |-> 1, kinds |-> <<"int64", "string">>, m |-> <<Int64Type, StringType>>],
       [n |-> 0, kinds |-> <<"int64">>, m |-> <<Int64Type>>],
       [n |-> 1, kinds |-> <<>>, m |-> <<>>],
       [n |-> 2, kinds |-> <<"int64", "struct0">>, m |-> <<Int64Type, Int64Type>>],
       [n |-> 2, kinds |-> <<"int64">>, m |-> <<Str("foo"), Int64Type>>],
       [n |-> 1, kinds |-> <<>>, m |-> <<ConstType(<<Str("a"), IntLit("int64", 1)>>)>>],
       [n |-> 2, kinds |-> <<"uint32", "int64">>, m |-> <<CharType, Int64Type>>] >>

UnionInput(k) ==
    newBaseRelation(newPartition(MakeRecord(UnionInputs[k].n, UnionInputs[k].kinds)),
                    UnionInputs[k].m)

\* TransactionResponse.Relations appends a relation to the collection
AddRelation ==
    /\ record = NoRecord /\ msig = None /\ ctnode = None
    /\ Len(coll) < MaxRels
    /\ \E k \in 1..Len(UnionInputs) : coll' = Append(coll, UnionInput(k))
    /\ un' = None
    /\ UNCHANGED <<record, part, meta, rel, ctnode, ctnative, msig, marg, mres>>
    /\ UNCHANGED <<selVars, numVars, readers, respVars>>
    /\ UNCHANGED clientVars

\* RelationCollection.Union
Union ==
    /\ record = NoRecord /\ msig = None /\ ctnode = None
    /\ un = None
    /\ un' = newUnionRelation(coll)
    /\ UNCHANGED <<record, part, meta, rel, coll, ctnode, ctnative, msig, marg, mres>>
    /\ UNCHANGED <<selVars, numVars, readers, respVars>>
    /\ UNCHANGED clientVars

\* The union of base relations is collected with the relations it is made of
AddUnion ==
    /\ un # None /\ ~IsPanic(un)
    /\ Len(coll) < MaxRels
    /\ \A i \in 1..Len(coll) : coll[i].rk = "base"
    /\ coll' = Append(coll, un)
    /\ un' = None
    /\ UNCHANGED <<record, part, meta, rel, ctnode, ctnative, msig, marg, mres>>
    /\ UNCHANGED <<selVars, numVars, readers, respVars>>
    /\ UNCHANGED clientVars

UnionNext == AddRelation \/ Union \/ AddUnion

UnionSpec == Init /\ [][UnionNext]_vars

(***************************************************************************)
(* Properties of union.                                                    *)
(***************************************************************************)
\* A union of two or more relations has been asked for
Unioned == un # None /\ Len(coll) >= 2

UnionedOk == Unioned /\ ~IsPanic(un)

\* The first row of input k (1-based) in the union, by the inputs' NumRows()
RowOffset(k) == SumSeq([j \in 1..(k - 1) |-> RelNumRows(coll[j])], 1)

DifferentWidths == \E j, k \in 1..Len(coll) : RelNumCols(coll[j]) # RelNumCols(coll[k])

\* Column i (0-based) of the union shows, on the rows of input k, nil where
\* input k has no column i and input k's own values where it has
ShowsInput(k, i) ==
    \A r \in 0..(RelNumRows(coll[k]) - 1) :
        IF i >= RelNumCols(coll[k])
        THEN /\ Value(un.cols[i + 1], RowOffset(k) + r) = Nil
             /\ String(un.cols[i + 1], RowOffset(k) + r) = "<nil>"
        ELSE /\ Value(un.cols[i + 1], RowOffset(k) + r) = Value(coll[k].cols[i + 1], r)
             /\ String(un.cols[i + 1], RowOffset(k) + r) = String(coll[k].cols[i + 1], r)

\* C8 as stated: the union of relations with different column counts has
\* as many columns as the widest input; in a column a shorter input lacks,
\* the rows of that input's row range are nil and render as the nil
\* placeholder, and the rows of the other inputs show their own values.
C8_NilForMissing ==
    (Unioned /\ DifferentWidths) =>
        /\ ~IsPanic(un)
        /\ \A k \in 1..Len(coll) : ~RelNumRowsPanics(coll[k])
        /\ RelNumCols(un) = maxNumCols(coll)
        /\ \A k \in 1..Len(coll) : \A i \in 0..(RelNumCols(un) - 1) : ShowsInput(k, i)

\* Every column of every input reports the input's NumRows()
InputColumnsAgree ==
    \A k \in 1..Len(coll) :
        /\ ~RelNumRowsPanics(coll[k])
        /\ \A i \in 1..Len(coll[k].cols) :
              /\ ~NumRowsPanics(coll[k].cols[i])
              /\ NumRows(coll[k].cols[i]) = RelNumRows(coll[k])

\* The statement of C8 for inputs whose columns all report the input's rows
C8_NilForMissingWhenColumnsAgree ==
    (Unioned /\ DifferentWidths /\ InputColumnsAgree) =>
        /\ ~IsPanic(un)
        /\ RelNumCols(un) = maxNumCols(coll)
        /\ \A k \in 1..Len(coll) : \A i \in 0..(RelNumCols(un) - 1) : ShowsInput(k, i)

\* C9 as stated: the union's NumRows() is the sum of the inputs' NumRows(),
\* also when inputs have zero rows or zero columns.
C9_RowSum ==
    Unioned =>
        /\ ~IsPanic(un)
        /\ \A k \in 1..Len(coll) : ~RelNumRowsPanics(coll[k])
        /\ ~RelNumRowsPanics(un)
        /\ RelNumRows(un) = SumSeq([k \in 1..Len(coll) |-> RelNumRows(coll[k])], 1)

\* The statement of C9 for inputs of which one has a column
C9_RowSumWhenSomeColumn ==
    (Unioned /\ InputColumnsAgree /\ maxNumCols(coll) > 0) =>
        /\ ~IsPanic(un)
        /\ ~RelNumRowsPanics(un)
        /\ RelNumRows(un) = SumSeq([k \in 1..Len(coll) |-> RelNumRows(coll[k])], 1)

\* Every input has a column i (0-based) and they all report one type
AllAgree(rs, i) ==
    \A k \in 1..Len(rs) :
        /\ i < RelNumCols(rs[k])
        /\ i < RelNumCols(rs[1])
        /\ Type(rs[k].cols[i + 1]) = Type(rs[1].cols[i + 1])

Permuted(rs, p) == [k \in 1..Len(rs) |-> rs[p[k]]]

\* C10: column i of a union of two or more relations reports the one type
\* column i of every input reports when they agree and Mixed otherwise, also
\* when an input has no column i; element i of the union's signature is that
\* type; and the inputs in any other order give the same types.
C10_UnionType ==
    UnionedOk =>
        /\ \A i \in 0..(RelNumCols(un) - 1) :
              /\ Type(un.cols[i + 1]) = IF AllAgree(coll, i) THEN Type(coll[1].cols[i + 1])
                                        ELSE MixedType
              /\ un.sig[i + 1] = Type(un.cols[i + 1])
        /\ \A p \in Permutations(1..Len(coll)) :
              /\ ~IsPanic(newUnionRelation(Permuted(coll, p)))
              /\ newUnionRelation(Permuted(coll, p)).sig = un.sig

C10_Witness ==
    /\ UnionedOk
    /\ Len(coll) = 3
    /\ RelNumCols(un) = 2
    /\ AllAgree(coll, 0)
    /\ ~AllAgree(coll, 1)
    /\ \E k \in 1..Len(coll) : RelNumCols(coll[k]) = 1
    /\ un.sig = <<Int64Type, MixedType>>

\* Two relations show the same signature, row count, and value and text in
\* every row and column
SameRelation(a, b) ==
    /\ RelSignature(a) = RelSignature(b)
    /\ RelNumCols(a) = RelNumCols(b)
    /\ RelNumRowsPanics(a) = RelNumRowsPanics(b)
    /\ RelNumRows(a) = RelNumRows(b)
    /\ \A i \in 1..Len(a.cols) : \A r \in 0..(RelNumRows(a) - 1) :
          /\ Value(a.cols[i], r) = Value(b.cols[i], r)
          /\ String(a.cols[i], r) = String(b.cols[i], r)

\* C11: Union over a collection of exactly one relation r returns r itself:
\* the same signature, the same row count and the same values in every row
\* and column.
C11_SingleUnion ==
    (un # None /\ Len(coll) = 1) =>
        /\ un = coll[1]
        /\ SameRelation(un, coll[1])

C11_Witness ==
    /\ un # None /\ Len(coll) = 1
    /\ coll[1].rk = "base"
    /\ RelNumCols(un) = 2 /\ RelNumRows(un) = 2
    /\ RelSignature(un) = <<RuneType, Int64Type>>
    /\ un = coll[1]

(***************************************************************************)
(* Select and Slice.                                                       *)
(***************************************************************************)
\* The loop of matchSig from term i on: "true", "false", or "panic" where
\* p != sig[i] compares two values of one slice type
RECURSIVE matchFrom(_, _, _)
matchFrom(pre, sig, i) ==
    IF i > Len(pre) THEN "true"
    ELSE IF pre[i] = Str("_") THEN matchFrom(pre, sig, i + 1)
    ELSE IF Uncomparable(pre[i], sig[i]) THEN "panic"
    ELSE IF pre[i] # sig[i] THEN "false"
    ELSE matchFrom(pre, sig, i + 1)

\* A match that never asks whether the signature is long enough
matchUnchecked(pre, sig) ==
    matchFrom(SubSeq(pre, 1, IF Len(pre) > Len(sig) THEN Len(sig) ELSE Len(pre)), sig, 1)

\* matchSig(pre, sig)
matchSig(pre, sig) == IF Len(pre) > Len(sig) THEN "false" ELSE matchFrom(pre, sig, 1)

\* r after r.Signature(): a base relation instantiates its signature
afterSignature(r) == IF r.rk = "base" THEN ensureSignature(r) ELSE r

\* The loop of RelationCollection.Select from relation i on.  acc.out are
\* the relations appended to rs, acc.coll the collection with the
\* relations as the calls of Signature leave them.
RECURSIVE selectLoop(_, _, _, _)
selectLoop(c, pre, i, acc) ==
    IF i > Len(c) THEN acc
    ELSE LET r == afterSignature(c[i])
             sig == RelSignature(c[i])
             m == IF RelSignaturePanics(c[i]) THEN "panic" ELSE matchSig(pre, sig)
         IN  IF m = "panic"
             THEN [acc EXCEPT !.coll[i] = r, !.panic = TRUE]
             ELSE selectLoop(c, pre, i + 1,
                      [acc EXCEPT !.coll[i] = r,
                                  !.out = IF m = "true" THEN Append(@, r) ELSE @])

\* RelationCollection.Select(args...)
Select(c, args) ==
    IF Len(args) = 0 THEN [out |-> c, coll |-> c, panic |-> FALSE]
    ELSE selectLoop(c, args, 1, [out |-> <<>>, coll |-> c, panic |-> FALSE])

\* Whether s[lo:hi] is outside a slice whose capacity is its length
sliceFaults(s, lo, hi) == lo < 0 \/ hi > Len(s) \/ lo > hi

\* s[lo:hi] taken with hi as the index of the last element
sliceThrough(s, lo, hi) == SubSeq(s, lo + 1, IF hi < Len(s) THEN hi + 1 ELSE hi)

\* s[lo:hi], for bounds inside the slice
sliceOf(s, lo, hi) == SubSeq(s, lo + 1, hi)

\* baseRelation.Slice / derivedRelation.Slice(lo, hi...): hi is the list
\* of the variadic arguments
RelSlice(r, lo, hi) ==
    LET sig == RelSignature(r)
        h == IF Len(hi) > 0 THEN hi[1] ELSE Len(r.cols)
    IN  IF RelSignaturePanics(r) THEN sig
        ELSE IF sliceFaults(r.cols, lo, h) THEN Panic("slice")
        ELSE newDerivedRelation(sliceOf(sig, lo, h), sliceOf(r.cols, lo, h))

(***************************************************************************)
(* CollectionSpec: a collection of base relations is built, and Select,    *)
(* Union and Slice are called on it and on its relations.                  *)
(***************************************************************************)
MaxTerms == 3

\* The partitions and metadata signatures of the relations collected
SelectInputs ==
    << [n |-> 1, kinds |-> <<>>, m |-> <<Str("a"), Str("b"), Str("c")>>],
       [n |-> 1, kinds |-> <<>>, m |-> <<Str("a"), Str("x"), Str("c")>>],
       [n |-> 1, kinds |-> <<>>, m |-> <<Str("a"), Str("b")>>],
       [n |-> 1, kinds |-> <<>>, m |-> <<Str("x"), Str("b"), Str("c")>>],
       [n |-> 2, kinds |-> <<"int64">>, m |-> <<Str("a"), Int64Type>>],
       [n |-> 2, kinds |-> <<"uint32", "int64">>, m |-> <<CharType, Int64Type>>],
       [n |-> 1, kinds |-> <<>>, m |-> <<>>],
       [n |-> 1, kinds |-> <<>>, m |-> <<ConstType(<<Str("a"), IntLit("int64", 1)>>)>>] >>

SelectInput(k) ==
    newBaseRelation(newPartition(MakeRecord(SelectInputs[k].n, SelectInputs[k].kinds)),
                    SelectInputs[k].m)

\* The prefix terms handed to Select
Terms == <<Str("_"), Str("a"), Str("c"), Int64Type>>

TermSeqs == SeqsUpTo(1..Len(Terms), MaxTerms)

MakeTerms(idx) == [i \in 1..Len(idx) |-> Terms[idx[i]]]

InputSeqs == SeqsUpTo(1..Len(SelectInputs), MaxRels) \ {<<>>}

\* TransactionResponse.Relations builds the collection of base relations
Collect ==
    /\ coll = <<>> /\ un = None /\ ~sel.called /\ ~sl.called
    /\ \E idx \in InputSeqs : coll' = [i \in 1..Len(idx) |-> SelectInput(idx[i])]
    /\ UNCHANGED <<un, asmVars, interpVars, selVars, numVars, readers, respVars>>
    /\ UNCHANGED clientVars

\* RelationCollection.Select(args...): the relations visited instantiate
\* their signatures
SelectCall ==
    /\ ~sel.called /\ ~sl.called /\ un = None
    /\ \E idx \in TermSeqs :
          /\ sel' = [called |-> TRUE, terms |-> MakeTerms(idx),
                      out |-> Select(coll, MakeTerms(idx)).out,
                      panic |-> Select(coll, MakeTerms(idx)).panic]
          /\ coll' = Select(coll, MakeTerms(idx)).coll
    /\ UNCHANGED <<un, sl, asmVars, interpVars, numVars, readers, respVars>>
    /\ UNCHANGED clientVars

\* The relation a Slice call is made on: relation src of the collection,
\* or the union when src is 0
SliceSource(src) == IF src = 0 THEN un ELSE coll[src]

\* Relation.Slice(lo, hi...) on a relation of the collection or on a
\* union of several. baseRelation.Slice has a value receiver: the signature
\* it instantiates is that of its own copy of the relation, and the relation
\* it is called on is left as it was
SliceCall ==
    /\ ~sl.called /\ ~sel.called
    /\ \E src \in 0..Len(coll) :
          /\ src = 0 => (un # None /\ ~IsPanic(un) /\ un.rk = "derived")
          /\ \E lo \in 0..Len(SliceSource(src).cols) :
             \E hi \in {<<>>} \cup {<<h>> : h \in 0..Len(SliceSource(src).cols)} :
                sl' = [called |-> TRUE, src |-> src, lo |-> lo, hi |-> hi,
                       out |-> RelSlice(SliceSource(src), lo, hi)]
    /\ UNCHANGED <<coll, un, sel, asmVars, interpVars, numVars, readers, respVars>>
    /\ UNCHANGED clientVars

CollectionNext == Collect \/ SelectCall \/ Union \/ SliceCall

CollectionSpec == Init /\ [][CollectionNext]_vars

(***************************************************************************)
(* Properties of Select and Slice.                                         *)
(***************************************************************************)
\* The signature has at least as many elements as there are terms, and at
\* every term's position the term is the wildcard or equals the element
Matches(sig, terms) ==
    /\ Len(sig) >= Len(terms)
    /\ \A i \in 1..Len(terms) : terms[i] = Str("_") \/ sig[i] = terms[i]

MatchesSelected(r) == Matches(RelSignature(r), sel.terms)

\* C12: Select(terms) returns, in their original order, exactly the
\* relations of the collection whose signature has at least len(terms)
\* elements and at every position i < len(terms) has the element terms[i],
\* or any element, string or not, where terms[i] is the wildcard "_"; with
\* no terms it returns the whole collection.
C12_Select ==
    sel.called =>
        /\ ~sel.panic
        /\ sel.out = SelectSeq(coll, MatchesSelected)
        /\ Len(sel.terms) = 0 => sel.out = coll

C12_Witness ==
    /\ sel.called
    /\ sel.terms = <<Str("a"), Str("_"), Str("c")>>
    /\ Len(coll) = 3
    /\ RelSignature(coll[1]) = <<Str("a"), Str("b"), Str("c")>>
    /\ RelSignature(coll[2]) = <<Str("a"), Str("b")>>
    /\ RelSignature(coll[3]) = <<Str("a"), Str("x"), Str("c")>>
    /\ sel.out = <<coll[1], coll[3]>>

\* A wildcard has matched an element that is not a string
C12_WildcardWitness ==
    /\ sel.called
    /\ sel.terms = <<Str("_"), Int64Type>>
    /\ Len(coll) = 2
    /\ RelSignature(coll[1]) = <<RuneType, Int64Type>>
    /\ RelSignature(coll[2]) = <<Str("x"), Str("b"), Str("c")>>
    /\ sel.out = <<coll[1]>>

\* Elements lo..hi-1 (0-based) of a list, in the same order
Segment(s, lo, hi) == [i \in 1..(hi - lo) |-> s[lo + i]]

\* The relation that was sliced, as the call finds it and as it leaves it
SlicedBefore == IF sl'.src = 0 THEN un ELSE coll[sl'.src]
SlicedAfter == IF sl'.src = 0 THEN un' ELSE coll'[sl'.src]

\* The upper bound of the call: hi, or the column count where hi is omitted
SliceUpper == IF Len(sl'.hi) > 0 THEN sl'.hi[1] ELSE RelNumCols(SlicedBefore)

\* C13: for 0 <= lo <= hi <= NumCols(), Slice(lo, hi) on a base or a
\* derived relation returns a relation whose signature and column list are
\* exactly elements lo..hi-1 of the source's signature and column list in
\* the same order, Slice(lo) alone runs to the last column, and the call
\* leaves the source's signature, columns and row count unchanged.
C13_SliceView ==
    [][(~sl.called /\ sl'.called /\ sl'.lo <= SliceUpper) =>
          /\ ~IsPanic(sl'.out)
          /\ sl'.out.rk = "derived"
          /\ sl'.out.sig = Segment(RelSignature(SlicedBefore), sl'.lo, SliceUpper)
          /\ sl'.out.cols = Segment(SlicedBefore.cols, sl'.lo, SliceUpper)
          /\ RelSignature(SlicedAfter) = RelSignature(SlicedBefore)
          /\ SlicedAfter.cols = SlicedBefore.cols
          /\ RelNumCols(SlicedAfter) = RelNumCols(SlicedBefore)
          /\ RelNumRowsPanics(SlicedAfter) = RelNumRowsPanics(SlicedBefore)
          /\ RelNumRows(SlicedAfter) = RelNumRows(SlicedBefore)]_vars

\* A middle column has been sliced from a derived relation of three
C13_Witness ==
    /\ sl.called /\ sl.src = 0
    /\ un.rk = "derived" /\ RelNumCols(un) = 3
    /\ sl.lo = 1 /\ sl.hi = <<2>>
    /\ sl.out = newDerivedRelation(<<un.sig[2]>>, <<un.cols[2]>>)

\* The last two columns have been sliced from a base relation by Slice(lo)
C13_BaseWitness ==
    /\ sl.called /\ sl.src = 1
    /\ coll[1].rk = "base" /\ RelNumCols(coll[1]) = 3
    /\ sl.lo = 1 /\ sl.hi = <<>>
    /\ sl.out = newDerivedRelation(<<Str("b"), Str("c")>>, <<coll[1].cols[2], coll[1].cols[3]>>)

(***************************************************************************)
(* Calls of the functions of rel.go and of the Item of the columns built   *)
(* on them.                                                                *)
(***************************************************************************)
\* A FixedSizeList column of one row holding the two words
PairColumn(lo, hi) == listColumn("uint64", <<lo, hi>>, 2)

\* The FixedDecimal value type of the declared bit width and digit count
FixedDecimal(bits, d) ==
    <<Str("rel"), Str("base"), Str("FixedDecimal"), IntLit("int64", bits), IntLit("int64", d),
      IF bits = 128 THEN Int128Type ELSE TypeOf(BitsType(bits))>>

\* Signed integers of the width, the least and the greatest where the
\* model's integers hold them
Samples(bits) ==
    CASE bits = 8 -> {-128, -1, 0, 1, 127}
      [] bits = 16 -> {-32768, -1, 0, 1, 32767}
      [] OTHER -> {-2147483647, -1, 0, 1, 2147483647}

\* The value the call returns
Apply(c) ==
    CASE c.fn = "NewBigInt128" -> NewBigInt128(c.lo, c.hi)
      [] c.fn = "DateFromRataDie" -> DateFromRataDie(c.n)
      [] OTHER -> Value(c.col, 0)                \* Item(0) of the column

Return ==
    /\ call # None /\ ret = None
    /\ ret' = Apply(call)
    /\ UNCHANGED <<call, asmVars, unionVars, interpVars, selVars, readers, respVars>>
    /\ UNCHANGED clientVars

CallNewBigInt128 ==
    /\ call = None
    /\ \E lo \in Words, hi \in Words : call' = [fn |-> "NewBigInt128", lo |-> lo, hi |-> hi]
    /\ UNCHANGED <<ret, asmVars, unionVars, interpVars, selVars, readers, respVars>>
    /\ UNCHANGED clientVars

\* int128Column.Item on the column newRelationColumn builds for Int128
CallInt128Item ==
    /\ call = None
    /\ \E lo \in Words, hi \in Words :
          call' = [fn |-> "int128Column.Item", lo |-> lo, hi |-> hi,
                   col |-> newRelationColumn(Int128Type, PairColumn(lo, hi), 1)]
    /\ UNCHANGED <<ret, asmVars, unionVars, interpVars, selVars, readers, respVars>>
    /\ UNCHANGED clientVars

BigIntNext == CallNewBigInt128 \/ CallInt128Item \/ Return

BigIntSpec == Init /\ [][BigIntNext]_vars

\* decimalNColumn.Item on the column newDecimalColumn builds over a
\* physical column of the declared width whose row encodes m
CallDecimalItem ==
    /\ call = None
    /\ \E bits \in DecimalBits \ {128}, d \in 0..MaxDigits :
          \E m \in Samples(bits) :
              call' = [fn |-> "decimalColumn.Item", bits |-> bits, d |-> d, m |-> m,
                       col |-> newDecimalColumn(FixedDecimal(bits, d),
                                                primitiveColumn(BitsType(bits), <<m>>))]
    /\ UNCHANGED <<ret, asmVars, unionVars, interpVars, selVars, readers, respVars>>
    /\ UNCHANGED clientVars

\* decimal128Column.Item: the row encodes m in two words, in two's
\* complement
CallDecimal128Item ==
    /\ call = None
    /\ \E lo \in Words, hi \in Words, d \in 0..MaxDigits :
          call' = [fn |-> "decimal128Column.Item", bits |-> 128, d |-> d,
                   m |-> TwosComplement(lo, hi),
                   col |-> newDecimalColumn(FixedDecimal(128, d), PairColumn(lo, hi))]
    /\ UNCHANGED <<ret, asmVars, unionVars, interpVars, selVars, readers, respVars>>
    /\ UNCHANGED clientVars

DecimalNext == CallDecimalItem \/ CallDecimal128Item \/ Return

DecimalSpec == Init /\ [][DecimalNext]_vars

CallDateFromRataDie ==
    /\ call = None
    /\ \E n \in (-MaxDay..MaxDay) \cup {epochStartDays} :
          call' = [fn |-> "DateFromRataDie", n |-> n]
    /\ UNCHANGED <<ret, asmVars, unionVars, interpVars, selVars, readers, respVars>>
    /\ UNCHANGED clientVars

\* dateColumn.Item on the column newBuiltinValueColumn builds for Date
CallDateItem ==
    /\ call = None
    /\ \E n \in {-MaxDay, 0, 1, MaxDay, epochStartDays} :
          call' = [fn |-> "dateColumn.Item", n |-> n,
                   col |-> newBuiltinValueColumn(
                               <<Str("rel"), Str("base"), Str("Date"), Int64Type>>,
                               primitiveColumn("int64", <<n>>), 1)]
    /\ UNCHANGED <<ret, asmVars, unionVars, interpVars, selVars, readers, respVars>>
    /\ UNCHANGED clientVars

DateNext == CallDateFromRataDie \/ CallDateItem \/ Return

DateSpec == Init /\ [][DateNext]_vars

(***************************************************************************)
(* Properties of the numeric decodings.                                    *)
(***************************************************************************)
Returned == call # None /\ ret # None

\* C14 as stated: for every supported bit width, every signed integer m of
\* the width and every declared digit count d, the decimal column's value at
\* a row whose physical data encodes m is m * 10^(-d) exactly.
C14_DecimalExact ==
    Returned => ret = Decimal(call.m, -call.d)

\* The statement of C14 for the widths 8 to 64, and for 128 bits where m is
\* not negative
C14_DecimalExactNotNegative128 ==
    (Returned /\ (call.bits = 128 => call.m >= 0)) => ret = Decimal(call.m, -call.d)

\* C15 as stated: NewBigInt128(lo, hi) is the two's-complement signed value
\* of the two words: the unsigned value when the sign bit of hi is clear,
\* the unsigned value minus the square of the word base when it is set, so
\* that lo = hi = all ones decodes to -1.
C15_TwosComplement ==
    Returned => ret = BigInt(TwosComplement(call.lo, call.hi))

\* NewBigInt128 where the sign bit of hi is clear
C15_UnsignedWhenSignClear ==
    (Returned /\ ~IsNegativeWord(call.hi)) => ret = BigInt(SetBits(call.lo, call.hi))

\* The day count of a timestamp: whole days since the Unix epoch plus
\* epochStartDays
DayCount(t) == t.day + epochStartDays

UnsupportedWidth(e, kind) ==
    /\ e.vk \in {"const", "value"}
    /\ isBuiltinPrefix(e.items)
    /\ e.items[3] = Str(kind)
    /\ Len(e.items) >= 4
    /\ e.items[4].vk = "int"
    /\ e.items[4].n \notin DecimalBits

\* The column renders "unknown" on every row
RendersUnknown(c, nrows) == \A r \in 0..(nrows - 1) : String(c, r) = "unknown"

\* C17 as stated: a FixedDecimal or Rational compositor whose declared bit
\* width is none of 8, 16, 32, 64, 128 degrades to the "unknown" placeholder
\* on every path without failing: the value-type column, the constant-type
\* column and the constant's entry in the relation signature all report
\* unknown rather than a numeric value.
C17_UnknownWidth ==
    /\ (Assembled /\ Len(meta) = 1 /\ PartitionNumCols(part) = NonConstCount(meta)
           /\ (UnsupportedWidth(meta[1], "FixedDecimal")
                  \/ UnsupportedWidth(meta[1], "Rational"))) => ~IsPanic(rel)
    /\ AssembledOk =>
          /\ ~RelSignaturePanics(rel)
          /\ \A i \in 1..Len(meta) :
                /\ UnsupportedWidth(meta[i], "FixedDecimal") =>
                        RendersUnknown(rel.cols[i], RelNumRows(rel))
                /\ (IsConstType(meta[i]) /\ UnsupportedWidth(meta[i], "Rational")) =>
                        RendersUnknown(rel.cols[i], RelNumRows(rel))
                /\ (IsConstType(meta[i])
                       /\ (UnsupportedWidth(meta[i], "FixedDecimal")
                              \/ UnsupportedWidth(meta[i], "Rational"))) =>
                        RelSignature(rel)[i] \in {UnknownType, Str("unknown")}

\* The columns of such compositors render "unknown" and assembly does not
\* fail, whatever the signature reports
C17_UnknownColumns ==
    /\ (Assembled /\ Len(meta) = 1 /\ PartitionNumCols(part) = NonConstCount(meta)
           /\ (UnsupportedWidth(meta[1], "FixedDecimal")
                  \/ UnsupportedWidth(meta[1], "Rational"))) => ~IsPanic(rel)
    /\ AssembledOk =>
          \A i \in 1..Len(meta) :
                /\ UnsupportedWidth(meta[i], "FixedDecimal") =>
                        RendersUnknown(rel.cols[i], RelNumRows(rel))
                /\ (IsConstType(meta[i]) /\ UnsupportedWidth(meta[i], "Rational")) =>
                        RendersUnknown(rel.cols[i], RelNumRows(rel))

(***************************************************************************)
(* Properties of the collection of no relations.                           *)
(***************************************************************************)
\* C18 as stated: a collection with zero relations is a valid input: Select
\* on it returns an empty collection, and Union on it returns a relation for
\* which NumCols() and NumRows() both return 0 without a runtime fault.
C18_EmptyCollection ==
    Len(coll) = 0 =>
        /\ sel.called => (~sel.panic /\ sel.out = <<>>)
        /\ un # None =>
              /\ ~IsPanic(un)
              /\ RelNumCols(un) = 0
              /\ ~RelNumRowsPanics(un)
              /\ RelNumRows(un) = 0

\* Select on the collection of no relations returns an empty collection and
\* Union on it returns a relation of no columns
C18_EmptySelectAndNumCols ==
    Len(coll) = 0 =>
        /\ sel.called => (~sel.panic /\ sel.out = <<>>)
        /\ un # None => (~IsPanic(un) /\ RelNumCols(un) = 0)

(***************************************************************************)
(* ReadSpec: a base relation is constructed and then read by concurrent    *)
(* readers. An accessor that only reads is one step; Signature is taken    *)
(* statement by statement, since ensureSignature assigns r.sig and then    *)
(* its elements.                                                           *)
(***************************************************************************)
\* newBaseRelation(p, meta): the relation handed to the readers
Construct ==
    /\ rel = None /\ record = NoRecord /\ coll = <<>> /\ un = None
    /\ \E k \in 1..Len(SelectInputs) : rel' = SelectInput(k)
    /\ UNCHANGED <<record, part, meta, unionVars, interpVars, selVars, numVars,
                   readers, respVars>>
    /\ UNCHANGED clientVars

Reading == rel # None /\ record = NoRecord /\ ~IsPanic(rel)

\* baseRelation.Row(rnum) and baseRelation.Strings(rnum)
RelRow(r, rnum) == [c \in 1..Len(r.cols) |-> Value(r.cols[c], rnum)]
RelStrings(r, rnum) == [c \in 1..Len(r.cols) |-> String(r.cols[c], rnum)]

\* What reader k gets from an accessor that is a single read of the relation
Result(k, op, v) == [readers EXCEPT ![k] = [op |-> op, pc |-> "done", i |-> 0,
                                             out |-> [v |-> v]]]

\* NumRows, NumCols, Column, Columns, Row, Strings and Slice on the relation
ReadCall(k) ==
    /\ Reading /\ readers[k].pc = "idle"
    /\ \/ readers' = Result(k, "NumRows", rel.nrows)
       \/ readers' = Result(k, "NumCols", RelNumCols(rel))
       \/ readers' = Result(k, "Columns", rel.cols)
       \/ \E c \in 1..Len(rel.cols) : readers' = Result(k, "Column", rel.cols[c])
       \/ \E r \in 0..(rel.nrows - 1) : readers' = Result(k, "Row", RelRow(rel, r))
       \/ \E r \in 0..(rel.nrows - 1) : readers' = Result(k, "Strings", RelStrings(rel, r))
       \/ \E lo \in 0..Len(rel.cols) : readers' = Result(k, "Slice", RelSlice(rel, lo, <<>>))
    /\ UNCHANGED <<asmVars, unionVars, interpVars, selVars, numVars, respVars>>
    /\ UNCHANGED clientVars

\* Signature(): ensureSignature tests r.sig against nil
SignatureCall(k) ==
    /\ Reading /\ readers[k].pc = "idle"
    /\ readers' = IF rel.hasSig THEN Result(k, "Signature", rel.sig)
                  ELSE [readers EXCEPT ![k] = [op |-> "Signature", pc |-> "make",
                                               i |-> 0, out |-> None]]
    /\ UNCHANGED <<asmVars, unionVars, interpVars, selVars, numVars, respVars>>
    /\ UNCHANGED clientVars

\* r.sig = make([]any, len(r.meta))
SignatureMake(k) ==
    /\ Reading /\ readers[k].pc = "make"
    /\ rel' = [rel EXCEPT !.sig = [i \in 1..Len(rel.meta) |-> Nil], !.hasSig = TRUE]
    /\ readers' = [readers EXCEPT ![k].pc = "fill"]
    /\ UNCHANGED <<record, part, meta, unionVars, interpVars, selVars, numVars, respVars>>
    /\ UNCHANGED clientVars

\* r.sig[i] = relationType(t) for the next element, and return r.sig after
\* the last
SignatureFill(k) ==
    /\ Reading /\ readers[k].pc = "fill"
    /\ LET i == readers[k].i
       IN  IF i >= Len(rel.meta)
           THEN /\ readers' = Result(k, "Signature", rel.sig)
                /\ rel' = rel
           ELSE IF IsPanic(relationType(rel.meta[i + 1]))
           THEN /\ readers' = [readers EXCEPT ![k].pc = "panic"]
                /\ rel' = rel
           ELSE /\ readers' = [readers EXCEPT ![k].i = i + 1]
                /\ rel' = [rel EXCEPT !.sig[i + 1] = relationType(rel.meta[i + 1])]
    /\ UNCHANGED <<record, part, meta, unionVars, interpVars, selVars, numVars, respVars>>
    /\ UNCHANGED clientVars

\* The reader is done with what it got and may call again
ReadReturn(k) ==
    /\ Reading /\ readers[k].pc = "done"
    /\ readers' = [readers EXCEPT ![k] = NoReaders[k]]
    /\ UNCHANGED <<asmVars, unionVars, interpVars, selVars, numVars, respVars>>
    /\ UNCHANGED clientVars

ReadNext ==
    \/ Construct
    \/ \E k \in Readers : ReadCall(k)
    \/ \E k \in Readers : SignatureCall(k)
    \/ \E k \in Readers : SignatureMake(k)
    \/ \E k \in Readers : SignatureFill(k)
    \/ \E k \in Readers : ReadReturn(k)

ReadSpec == Init /\ [][ReadNext]_vars

(***************************************************************************)
(* Properties of concurrent readers.                                       *)
(***************************************************************************)
\* C19 as stated: after a base relation has been constructed, no public
\* accessor (NumRows, NumCols, Column, Columns, Row, Strings, Signature,
\* Slice) writes to any field of the relation or of its columns, so two
\* readers calling accessors on the same relation concurrently never perform
\* a write that conflicts with another reader's access.
C19_NoAccessorWrites == [][rel # None => rel' = rel]_vars

\* The only writes are those of Signature, to r.sig; the columns, the
\* metadata, the partition and the row count are never written
C19_OnlySignatureWrites ==
    [][(rel # None /\ rel' # rel) =>
          /\ \E k \in Readers : readers[k].op = "Signature" /\ readers[k].pc \in {"make", "fill"}
          /\ rel'.cols = rel.cols /\ rel'.meta = rel.meta
          /\ rel'.part = rel.part /\ rel'.nrows = rel.nrows]_vars

\* A reader that Signature() has returned to holds the whole signature
C19_SignatureWhole ==
    \A k \in Readers :
        (Reading /\ readers[k].op = "Signature" /\ readers[k].pc = "done") =>
            readers[k].out.v = filledSignature(rel.meta)

(***************************************************************************)
(* ResponseSpec: a transaction response is decoded, its metadata and       *)
(* partitions may be fetched later, and Relations is called on it. The     *)
(* fields built, calls and hits of the response count the base relations   *)
(* constructed, the calls of Relations and the calls that found            *)
(* t.relations set; the field obj of a relation tells the constructed      *)
(* objects apart, and the field visited of the response lists the ids in   *)
(* the order in which the loop of Relations came to them.                  *)
(***************************************************************************)
MaxCalls == 3

MaxPrefix == 2

MaxPartitions == 2

\* The partitions of a response by relation id, with the signature the
\* metadata has for the id; known tells whether the metadata has one (it
\* has none for the last but one; the last is a partition its signature
\* does not fit)
ResponseInputs ==
    << [n |-> 1, kinds |-> <<>>, known |-> TRUE, m |-> <<Str("a"), Str("b"), Str("c")>>],
       [n |-> 2, kinds |-> <<"int64">>, known |-> TRUE, m |-> <<Str("a"), Int64Type>>],
       [n |-> 1, kinds |-> <<>>, known |-> TRUE, m |-> <<Str("x"), Str("b"), Str("c")>>],
       [n |-> 1, kinds |-> <<"int64">>, known |-> FALSE, m |-> <<>>],
       [n |-> 1, kinds |-> <<>>, known |-> TRUE, m |-> <<Int64Type>>] >>

RelationIds == 1..Len(ResponseInputs)

\* t.Partitions[id] and t.Signature(id)
ResponsePartition(id) ==
    newPartition(MakeRecord(ResponseInputs[id].n, ResponseInputs[id].kinds))
\* TransactionMetadata.Signature(id): the nil signature for an id the
\* metadata does not have
metadataSignature(id) == IF ResponseInputs[id].known THEN ResponseInputs[id].m ELSE <<>>
ResponseSignature(id) == metadataSignature(id)

\* newBaseRelation(p, t.Signature(id)) for the partition p of each id
ResponseRelations ==
    [id \in RelationIds |-> newBaseRelation(ResponsePartition(id), ResponseSignature(id))]

PartitionMaps == {S \in SUBSET RelationIds : Cardinality(S) <= MaxPartitions}

\* The orders in which a range over the map may visit its keys
Orders(S) ==
    {o \in [1..Cardinality(S) -> S] : \A i, j \in 1..Cardinality(S) : o[i] = o[j] => i = j}

PrefixSeqs == SeqsUpTo(1..Len(Terms), MaxPrefix)

\* A response whose cache is never found set
relationsNeverSet(t) == TRUE

\* t.relations == nil
relationsUnset(t) == ~t.relations.set

\* The base relation r as the object constructed after n others
Allocated(r, n) == [f \in DOMAIN r \cup {"obj"} |-> IF f = "obj" THEN n ELSE r[f]]

\* The relations the loop of Relations constructs, in the order in which
\* the range visits the map
constructed(order) == [i \in 1..Len(order) |-> ResponseRelations[order[i]]]

\* The number of relations constructed before the first that faults
builtBefore(rels) ==
    Cardinality({i \in 1..Len(rels) : \A j \in 1..i : ~IsPanic(rels[j])})

\* t.relations = c after the loop; a fault of newBaseRelation in the loop
\* leaves t.relations as it was
collected(t, rels) ==
    IF \E i \in 1..Len(rels) : IsPanic(rels[i])
    THEN [t |-> [t EXCEPT !.built = @ + builtBefore(rels)], panic |-> TRUE]
    ELSE [t |-> [t EXCEPT !.relations =
                              [set |-> TRUE,
                               rels |-> [i \in 1..Len(rels) |->
                                           Allocated(rels[i], t.built + i)]],
                          !.built = @ + Len(rels)],
          panic |-> FALSE]

\* The first half of Relations, for a response that has metadata: the
\* collection is constructed if t.relations is nil
buildRelations(t, order) ==
    IF relationsUnset(t) THEN collected([t EXCEPT !.visited = order], constructed(order))
    ELSE [t |-> [t EXCEPT !.hits = @ + 1], panic |-> FALSE]

\* What Select returns and the signatures it has instantiated, taken into
\* the response
selected(t, s) ==
    [t |-> [t EXCEPT !.relations.rels = s.coll], out |-> s.out, panic |-> s.panic]

\* return t.relations.Select(args...), for b as buildRelations leaves it
selectRelations(b, args) ==
    IF b.panic THEN [t |-> b.t, out |-> <<>>, panic |-> TRUE]
    ELSE selected(b.t, Select(b.t.relations.rels, args))

\* TransactionResponse.Relations(args...): the response after the call,
\* the collection returned, and whether the call ended in a runtime panic
Relations(t, args, order) ==
    IF ~t.metadata THEN [t |-> t, out |-> <<>>, panic |-> FALSE]
    ELSE selectRelations(buildRelations(t, order), args)

\* The response is decoded, with or without metadata and partitions
Respond ==
    /\ ~resp.decoded /\ record = NoRecord /\ rel = None /\ coll = <<>> /\ un = None
    /\ \E md \in BOOLEAN :
       \E ps \in {[set |-> FALSE, ids |-> {}]} \cup {[set |-> TRUE, ids |-> S] : S \in PartitionMaps} :
          resp' = [NoResponse EXCEPT !.decoded = TRUE, !.metadata = md, !.partitions = ps]
    /\ UNCHANGED <<got, asmVars, unionVars, interpVars, selVars, numVars, readers>>
    /\ UNCHANGED clientVars

\* TransactionResponse.EnsureMetadata fetches the metadata that is missing
EnsureMetadata ==
    /\ resp.decoded /\ ~got.panic /\ ~resp.metadata
    /\ resp' = [resp EXCEPT !.metadata = TRUE]
    /\ UNCHANGED <<got, asmVars, unionVars, interpVars, selVars, numVars, readers>>
    /\ UNCHANGED clientVars

\* TransactionResponse.EnsureResults fetches the partitions that are missing
EnsureResults ==
    /\ resp.decoded /\ ~got.panic /\ ~resp.partitions.set
    /\ \E S \in PartitionMaps : resp' = [resp EXCEPT !.partitions = [set |-> TRUE, ids |-> S]]
    /\ UNCHANGED <<got, asmVars, unionVars, interpVars, selVars, numVars, readers>>
    /\ UNCHANGED clientVars

\* A call of Relations; nothing recovers a runtime panic, so no call
\* follows one
RelationsCall ==
    /\ resp.decoded /\ ~got.panic /\ resp.calls < MaxCalls
    /\ \E idx \in PrefixSeqs :
       \E order \in IF resp.metadata /\ relationsUnset(resp)
                     THEN Orders(resp.partitions.ids) ELSE {<<>>} :
       \E r \in {Relations(resp, MakeTerms(idx), order)} :
          /\ resp' = [r.t EXCEPT !.calls = @ + 1]
          /\ got' = [called |-> TRUE, args |-> MakeTerms(idx),
                      out |-> r.out, panic |-> r.panic]
    /\ UNCHANGED <<asmVars, unionVars, interpVars, selVars, numVars, readers>>
    /\ UNCHANGED clientVars

ResponseNext == Respond \/ EnsureMetadata \/ EnsureResults \/ RelationsCall

ResponseSpec == Init /\ [][ResponseNext]_vars

(***************************************************************************)
(* Properties of the cached collection.                                    *)
(***************************************************************************)
\* A relation without what Signature() caches in it
Unsigned(r) == [r EXCEPT !.sig = <<>>, !.hasSig = FALSE]

Cached(t) == [i \in 1..Len(t.relations.rels) |-> Unsigned(t.relations.rels[i])]

\* C20: TransactionResponse.Relations builds the collection of base
\* relations at most once per response: after the first call made while
\* metadata is present, every later call, with any prefix arguments, selects
\* from the same cached relation objects and constructs no new base
\* relation; a call made while metadata is absent returns an empty
\* collection and caches nothing.
C20_BuiltOnce ==
    [][(resp'.calls = resp.calls + 1) =>
          /\ (resp.metadata /\ ~got'.panic) => resp'.relations.set
          /\ resp.relations.set =>
                /\ resp'.built = resp.built
                /\ resp'.relations.set
                /\ Cached(resp') = Cached(resp)
                /\ ~got'.panic =>
                      /\ got'.out = Select(resp.relations.rels, got'.args).out
                      /\ \A j \in 1..Len(got'.out) :
                            \E i \in 1..Len(resp'.relations.rels) :
                                got'.out[j] = resp'.relations.rels[i]
          /\ ~resp.metadata =>
                /\ got'.out = <<>> /\ ~got'.panic
                /\ resp'.relations = resp.relations
                /\ resp'.built = resp.built]_vars

\* A later call with a prefix has selected one of two cached relations
C20_Witness ==
    /\ resp.hits >= 1 /\ resp.relations.set /\ resp.built = 2
    /\ got.called /\ ~got.panic /\ Len(got.args) > 0 /\ Len(got.out) = 1

\* Relations has been called on a response that has partitions and no
\* metadata
C20_AbsentWitness ==
    /\ got.called /\ ~resp.metadata /\ resp.partitions.ids # {}
    /\ got.out = <<>> /\ ~resp.relations.set /\ resp.built = 0

\* No response has more base relations constructed than it has partitions
C20_BuiltAtMostPartitions ==
    /\ resp.built <= Cardinality(resp.partitions.ids)
    /\ resp.relations.set => resp.built = Len(resp.relations.rels)

(***************************************************************************)
(* Properties of the relations collected from the partitions.              *)
(***************************************************************************)
\* The ids of the partitions the metadata has a signature for
KnownIds(S) == {id \in S : ResponseInputs[id].known}

\* The call has found t.relations nil and has set it
Collecting == ~resp.relations.set /\ resp'.relations.set

\* The number of relations collected for the partition id
CollectedFor(t, id) ==
    Cardinality({i \in 1..Len(t.relations.rels) :
                    /\ t.visited[i] = id
                    /\ Unsigned(t.relations.rels[i]) =
                          Allocated(ResponseRelations[id], t.relations.rels[i].obj)})

\* C21 as stated: the relation collection built by
\* TransactionResponse.Relations contains exactly one base relation for each
\* partition whose identifier has a metadata signature, and no relation for
\* a partition whose identifier is absent from the metadata.
C21_KnownPartitions ==
    [][Collecting =>
          /\ Len(resp'.relations.rels) = Cardinality(KnownIds(resp.partitions.ids))
          /\ \A id \in resp.partitions.ids :
                CollectedFor(resp', id) = IF ResponseInputs[id].known THEN 1 ELSE 0]_vars

\* The collection has exactly one base relation for each partition of the
\* response, whether or not the metadata has a signature for its id
C21_EveryPartition ==
    [][Collecting =>
          /\ Len(resp'.relations.rels) = Cardinality(resp.partitions.ids)
          /\ \A id \in resp.partitions.ids : CollectedFor(resp', id) = 1]_vars

\* A partition whose id the metadata does not have has been collected
C21_UnknownCollected ==
    /\ resp.relations.set
    /\ \E i \in 1..Len(resp.relations.rels) :
          /\ ~ResponseInputs[resp.visited[i]].known
          /\ RelNumCols(resp.relations.rels[i]) = 0
          /\ RelNumRows(resp.relations.rels[i]) = 1

(***************************************************************************)
(* Properties of the rendering of strings and symbols.                     *)
(***************************************************************************)
Quoted(str) == "\"" \o str \o "\""

\* Column i of the relation is a physical string column under the type
\* string
StringData(i) == meta[i] = StringType /\ rel.cols[i].ck = "string"

\* Element i of the metadata is a compositor, not a builtin one, whose first
\* element is the symbol that names it
NamedCompositor(i, kind) ==
    /\ meta[i].vk = kind
    /\ ~isBuiltinPrefix(meta[i].items)
    /\ Len(meta[i].items) > 0 /\ IsStr(meta[i].items[1])
    /\ rel.cols[i].ck = kind

RelRows == 0..(RelNumRows(rel) - 1)

\* C22 as stated: in the per-row textual rendering of a relation (Strings /
\* String), every string data value is enclosed in double quotes and every
\* symbol is rendered bare, whether the value comes from a physical string
\* column, from a top-level literal, or from a literal nested inside a
\* constant or value compositor.
C22_QuotedAndBare ==
    AssembledOk =>
        \A i \in 1..Len(meta) : \A r \in RelRows :
            /\ StringData(i) =>
                    String(rel.cols[i], r) = Quoted(Value(rel.cols[i], r).s)
            /\ IsStr(meta[i]) => String(rel.cols[i], r) = meta[i].s
            /\ NamedCompositor(i, "value") =>
                    String(rel.cols[i].cols[1], r) = meta[i].items[1].s
            /\ NamedCompositor(i, "const") =>
                    String(rel.cols[i].cols[1], r) = meta[i].items[1].s

\* What the code renders: a top-level symbol and a symbol of a value
\* compositor bare, a string of a physical column bare too, and every
\* string of a constant compositor in double quotes
C22_AsRendered ==
    AssembledOk =>
        \A i \in 1..Len(meta) : \A r \in RelRows :
            /\ StringData(i) => String(rel.cols[i], r) = Value(rel.cols[i], r).s
            /\ IsStr(meta[i]) => String(rel.cols[i], r) = meta[i].s
            /\ NamedCompositor(i, "value") =>
                    String(rel.cols[i].cols[1], r) = meta[i].items[1].s
            /\ NamedCompositor(i, "const") =>
                    String(rel.cols[i].cols[1], r) = Quoted(meta[i].items[1].s)

\* A relation of at least one row with a physical string column, and one
\* with a constant compositor
C22_StringColumnSeen ==
    AssembledOk /\ RelNumRows(rel) > 0 /\ \E i \in 1..Len(meta) : StringData(i)
C22_ConstCompositorSeen ==
    AssembledOk /\ RelNumRows(rel) > 0 /\ \E i \in 1..Len(meta) : NamedCompositor(i, "const")

(***************************************************************************)
(* StreamSpec: readTransactionPartition reads one part of a multipart      *)
(* response as an arrow stream. The stream reader owns one reference on    *)
(* the record it is at and drops it when it is advanced; refs counts the   *)
(* references on each record of the stream, 0 for a record not read yet    *)
(* or freed.                                                               *)
(***************************************************************************)
MaxRecords == 2

MaxUses == 2

\* The records a stream may hold: any first record, and a second one
StreamRecords ==
    {<<>>}
    \cup {<<MakeRecord(n, kinds)>> : n \in 0..MaxRows, kinds \in KindSeqs}
    \cup {<<MakeRecord(n, kinds), MakeRecord(1, <<"int64">>)>> :
             n \in 0..MaxRows, kinds \in KindSeqs}

\* A count that record.Retain() leaves as it was
notRetained(n) == n

\* record.Retain() on a record of n references
retained(n) == n + 1

\* The reference the reader drops when it leaves record cur
released(refs, cur) == IF cur = 0 THEN refs ELSE [refs EXCEPT ![cur] = @ - 1]

\* r.Next(): the reader drops the record it is at and reads the next one,
\* if the stream has one
advanced(st) ==
    IF st.cur < Len(st.recs)
    THEN [st EXCEPT !.cur = st.cur + 1,
                    !.refs = [released(st.refs, st.cur) EXCEPT ![st.cur + 1] = 1]]
    ELSE [st EXCEPT !.cur = 0, !.refs = released(st.refs, st.cur)]

Failed(why) == [err |-> why]

\* ipc.NewReader(part) on a part of the arrow stream content type, or the
\* error returned for another content type
OpenPart ==
    /\ stream.pc = "closed"
    /\ \/ \E recs \in StreamRecords :
             stream' = [NoStream EXCEPT !.pc = "open", !.recs = recs,
                                        !.refs = [i \in 1..Len(recs) |-> 0]]
       \/ stream' = [NoStream EXCEPT !.pc = "done", !.out = Failed("content type")]
    /\ UNCHANGED <<asmVars, unionVars, interpVars, selVars, numVars, readers, respVars>>
    /\ UNCHANGED <<txn, auth, exec>>

\* if r.Next(): the first record, or the error for a stream of none
FirstNext ==
    /\ stream.pc = "open"
    /\ \E st \in {advanced(stream)} :
          stream' = IF st.cur # 0 THEN [st EXCEPT !.pc = "record"]
                    ELSE [st EXCEPT !.pc = "done", !.out = Failed("no records")]
    /\ UNCHANGED <<asmVars, unionVars, interpVars, selVars, numVars, readers, respVars>>
    /\ UNCHANGED <<txn, auth, exec>>

\* record := r.Record(); record.Retain()
Retain ==
    /\ stream.pc = "record"
    /\ stream' = [stream EXCEPT !.pc = "retained", !.held = stream.cur,
                                 !.refs[stream.cur] = retained(@)]
    /\ UNCHANGED <<asmVars, unionVars, interpVars, selVars, numVars, readers, respVars>>
    /\ UNCHANGED <<txn, auth, exec>>

\* if r.Next(): the error for a second record, or else
\* return id, newPartition(record), nil
SecondNext ==
    /\ stream.pc = "retained"
    /\ \E st \in {advanced(stream)} :
          stream' = IF st.cur # 0
                    THEN [st EXCEPT !.pc = "done", !.out = Failed("unexpected record")]
                    ELSE [st EXCEPT !.pc = "done",
                                    !.out = [partition |-> newPartition(st.recs[st.held])]]
    /\ UNCHANGED <<asmVars, unionVars, interpVars, selVars, numVars, readers, respVars>>
    /\ UNCHANGED <<txn, auth, exec>>

\* The partition returned, or a relation made of it, reads the record
UsePartition ==
    /\ stream.pc = "done" /\ "partition" \in DOMAIN stream.out
    /\ stream.uses < MaxUses
    /\ stream' = [stream EXCEPT !.uses = @ + 1]
    /\ UNCHANGED <<asmVars, unionVars, interpVars, selVars, numVars, readers, respVars>>
    /\ UNCHANGED <<txn, auth, exec>>

StreamNext == OpenPart \/ FirstNext \/ Retain \/ SecondNext \/ UsePartition

StreamSpec == Init /\ [][StreamNext]_vars

(***************************************************************************)
(* Properties of the record of a partition.                                *)
(***************************************************************************)
PartitionReturned == stream.pc = "done" /\ "partition" \in DOMAIN stream.out

\* C23: readTransactionPartition takes a reference on the partition's
\* record (Retain) after reading it and before the stream reader is advanced
\* again, and nothing releases that reference afterwards, so the record
\* backing any returned partition has a positive reference count at every
\* moment the partition or a relation derived from it is in use.
C23_RecordRetained ==
    /\ stream.pc = "retained" =>
          (stream.cur = stream.held /\ stream.refs[stream.held] = 2)
    /\ PartitionReturned =>
          /\ stream.held = 1 /\ stream.refs[stream.held] = 1
          /\ stream.out.partition = newPartition(stream.recs[stream.held])

\* The partition of a record with a column has been returned and used
\* after the reader left the record
C23_Witness ==
    /\ PartitionReturned /\ stream.uses > 0 /\ stream.cur = 0
    /\ ~IsPanic(stream.out.partition)
    /\ PartitionNumCols(stream.out.partition) > 0
    /\ stream.refs[stream.held] > 0

\* No step changes the count of a record once its partition is returned
C23_NeverReleased == [][PartitionReturned => stream'.refs = stream.refs]_vars

(***************************************************************************)
(* Constant nodes with fewer literals than runtime-type slots (InterpSpec).*)
(***************************************************************************)
\* The runtime-type slots of the compositor of a constant value-type node
NodeSlots(c) == SlotCount(ConstType(ConstDeep(c.relType.argTypes)))

\* A placeholder among the elements of a compositor, at any depth
RECURSIVE HasPlaceholder(_)
HasPlaceholder(c) ==
    \E i \in 1..Len(c.items) :
        \/ c.items[i] = UnknownType
        \/ IsType(c.items[i])
        \/ (IsConstType(c.items[i]) \/ IsValueType(c.items[i])) /\ HasPlaceholder(c.items[i])

TooFewLiterals ==
    /\ Interpreted
    /\ ctnode.relType.tag = "VALUE_TYPE"
    /\ Len(ctnode.args) < NodeSlots(ctnode)

\* C24 as stated: when the literal tuple of a constant node has fewer
\* literals than the compositor has runtime-type slots, the empty tuple
\* included, interpreting the node stops with an indexing fault and never
\* returns a compositor with an unfilled slot or a placeholder in it.
C24_TooFewFaults == TooFewLiterals => IsPanic(ctnative)

\* With at least one literal, and value types nested no deeper than
\* directly under the node, too few literals end in the indexing fault
C24_NonEmptyFaults ==
    (/\ TooFewLiterals
     /\ Len(ctnode.args) > 0
     /\ ValueDepthAtMost(ctnode.relType.argTypes, 1)) =>
        /\ IsPanic(ctnative)
        /\ ctnative.why = "index"

\* A node of one slot and no literal has been interpreted to a compositor
\* whose slot holds the placeholder
C24_PlaceholderReturned ==
    /\ TooFewLiterals
    /\ Len(ctnode.args) = 0 /\ NodeSlots(ctnode) = 1
    /\ ~IsPanic(ctnative)
    /\ HasPlaceholder(ctnative)

\* A node of two slots and one literal has ended in the indexing fault
C24_FaultSeen ==
    /\ TooFewLiterals
    /\ Len(ctnode.args) = 1 /\ NodeSlots(ctnode) = 2
    /\ IsPanic(ctnative)

(***************************************************************************)
(* GetTransactionSpec: Client.GetTransaction reads the transaction         *)
(* resource and, for a terminal transaction, fetches the selected outputs  *)
(* in goroutines joined by a wait group.                                   *)
(***************************************************************************)
MaxOpts == 2

TxStates == {"CREATED", "RUNNING", "CANCELLING", "COMPLETED", "ABORTED"}

\* isTransactionComplete
isTransactionComplete(state) == state \in {"COMPLETED", "ABORTED"}

\* GetTransactionOptions{Results, Metadata, Problems}
GetTransactionOptions == [OutputSet -> BOOLEAN]

\* The outputs selected by the options given: the disjunction of each field
selectedOutputs(opts) == [o \in OutputSet |-> \E i \in 1..Len(opts) : opts[i][o]]

\* wg.Wait() never blocking
neverWaits(wg) == TRUE

\* wg.Wait() returns when the counter is zero
waited(wg) == wg = 0

\* The value GetTransaction returns after the wait
returned(t) ==
    LET chosen == selectedOutputs(t.opts)
    IN  IF chosen["results"] /\ t.err["results"] # "nil" THEN Failed(t.err["results"])
        ELSE IF chosen["metadata"] /\ t.err["metadata"] # "nil" THEN Failed(t.err["metadata"])
        ELSE IF chosen["problems"] /\ t.err["problems"] # "nil" THEN Failed(t.err["problems"])
        ELSE [rsp |-> [transaction |-> t.state, field |-> t.field]]

notClientVars == <<asmVars, unionVars, interpVars, selVars, numVars, readers, respVars>>

CallGetTransaction ==
    /\ txn.pc = "idle"
    /\ \E opts \in SeqsUpTo(GetTransactionOptions, MaxOpts) :
          txn' = [NoTransaction EXCEPT !.pc = "get", !.opts = opts]
    /\ UNCHANGED <<notClientVars, stream, auth, exec>>

\* c.Get of the transaction resource: an error, or the transaction
GetResource ==
    /\ txn.pc = "get"
    /\ \/ txn' = [txn EXCEPT !.pc = "done", !.out = Failed("get")]
       \/ \E state \in TxStates :
             txn' = IF isTransactionComplete(state)
                    THEN [txn EXCEPT !.pc = "spawn", !.state = state]
                    ELSE [txn EXCEPT !.pc = "done", !.state = state,
                                     !.out = [rsp |-> [transaction |-> state,
                                                       field |-> txn.field]]]
    /\ UNCHANGED <<notClientVars, stream, auth, exec>>

\* if results { wg.Add(1); go func() {...}() }, then metadata, then problems
Spawn ==
    /\ txn.pc = "spawn"
    /\ LET o == Outputs[txn.next]
           t == IF selectedOutputs(txn.opts)[o]
                THEN [txn EXCEPT !.wg = @ + 1, !.fetch[o] = "running",
                                 !.started[o] = @ + 1]
                ELSE txn
       IN  txn' = IF txn.next = Len(Outputs) THEN [t EXCEPT !.pc = "wait"]
                  ELSE [t EXCEPT !.next = @ + 1]
    /\ UNCHANGED <<notClientVars, stream, auth, exec>>

\* The goroutine of output o: result.<o>, err<o> = c.GetTransaction<o>(id);
\* wg.Done()
Fetch(o) ==
    /\ txn.fetch[o] = "running"
    /\ \E ok \in BOOLEAN :
          txn' = [txn EXCEPT !.fetch[o] = "done", !.wg = @ - 1,
                             !.field[o] = IF ok THEN o ELSE "nil",
                             !.err[o] = IF ok THEN "nil" ELSE o]
    /\ UNCHANGED <<notClientVars, stream, auth, exec>>

\* wg.Wait() and the return
WaitReturn ==
    /\ txn.pc = "wait"
    /\ waited(txn.wg)
    /\ txn' = [txn EXCEPT !.pc = "done", !.out = returned(txn)]
    /\ UNCHANGED <<notClientVars, stream, auth, exec>>

GetTransactionNext ==
    CallGetTransaction \/ GetResource \/ Spawn \/ (\E o \in OutputSet : Fetch(o))
    \/ WaitReturn

GetTransactionSpec == Init /\ [][GetTransactionNext]_vars

(***************************************************************************)
(* Properties of GetTransaction.                                           *)
(***************************************************************************)
GetTransactionReturned == txn.pc = "done" /\ txn.out # Failed("get")

SomeSelectedFailed ==
    \E o \in OutputSet : selectedOutputs(txn.opts)[o] /\ txn.err[o] # "nil"

\* C25: for a terminal transaction GetTransaction starts one concurrent
\* fetch per selected output, returns only after all of them have finished,
\* each fetch writes only its own response field and error variable, and it
\* returns an error with no response exactly when a selected fetch failed;
\* for a non-terminal transaction it starts no fetch and returns the
\* transaction alone.
C25_JoinedFetches ==
    /\ \A o \in OutputSet :
          /\ txn.started[o] = (IF txn.fetch[o] = "none" THEN 0 ELSE 1)
          /\ txn.fetch[o] # "none" =>
                isTransactionComplete(txn.state) /\ selectedOutputs(txn.opts)[o]
          /\ txn.fetch[o] # "done" => txn.field[o] = "nil" /\ txn.err[o] = "nil"
          /\ txn.fetch[o] = "done" => txn.field[o] \in {"nil", o} /\ txn.err[o] \in {"nil", o}
    /\ (GetTransactionReturned /\ isTransactionComplete(txn.state)) =>
          /\ \A o \in OutputSet :
                txn.fetch[o] = (IF selectedOutputs(txn.opts)[o] THEN "done" ELSE "none")
          /\ ("err" \in DOMAIN txn.out) = SomeSelectedFailed
          /\ ("rsp" \in DOMAIN txn.out) = ~SomeSelectedFailed
          /\ "rsp" \in DOMAIN txn.out =>
                txn.out.rsp = [transaction |-> txn.state, field |-> txn.field]
    /\ (GetTransactionReturned /\ ~isTransactionComplete(txn.state)) =>
          /\ \A o \in OutputSet : txn.fetch[o] = "none"
          /\ txn.out = [rsp |-> [transaction |-> txn.state,
                                 field |-> [o \in OutputSet |-> "nil"]]]

\* A terminal transaction has been returned after two fetches, one of an
\* output that was not selected never started
C25_Witness ==
    /\ GetTransactionReturned /\ isTransactionComplete(txn.state)
    /\ "rsp" \in DOMAIN txn.out
    /\ txn.fetch["results"] = "done" /\ txn.fetch["metadata"] = "done"
    /\ txn.fetch["problems"] = "none"
    /\ txn.out.rsp.field["metadata"] = "metadata"

\* An error has been returned because the fetch of the problems failed
C25_FailedWitness ==
    /\ GetTransactionReturned /\ "err" \in DOMAIN txn.out
    /\ txn.err["problems"] # "nil" /\ txn.err["results"] = "nil"

\* A non-terminal transaction has been returned
C25_RunningWitness ==
    /\ GetTransactionReturned /\ txn.state = "RUNNING"
    /\ selectedOutputs(txn.opts)["results"]

(***************************************************************************)
(* AuthSpec: the access token lookups of a client made with client         *)
(* credentials. The handler is held by the client as an interface value;   *)
(* disk is the token cache file, now the clock in seconds.                 *)
(***************************************************************************)
MaxLookups == 3

TickSecs == 60

MaxTime == 240

\* IsExpired anticipates the expiration by 60 seconds
expiryMargin == 60

\* The lifetimes of the tokens the server issues
Lifetimes == {120, 240}

AccessToken(id, createdOn, expiresIn) ==
    [token |-> id, createdOn |-> createdOn, expiresIn |-> expiresIn]

IsNilToken(a) == "nil" \in DOMAIN a

\* AccessToken.ExpiresOn
ExpiresOn(a) == a.createdOn + a.expiresIn

\* AccessToken.IsExpired at the clock now
IsExpired(a, now) == now > ExpiresOn(a) - expiryMargin

\* The handler the client holds after a method with a pointer receiver
\* assigned to the fields of h
keptThroughPointer(held, h) == h

\* The handler the client holds after GetAccessToken, whose receiver is a
\* value: the assignments to h.accessToken are made to a copy
keptByValue(held, h) == held

\* ClientCredentialsHandler.GetAccessToken on the handler held, with the
\* answer of the server, fresh, or NoToken for a failed request: the handler
\* h after the assignments, the value returned, and what was read
lookedUp(a, fresh) ==
    LET h == a.handler
        cached == IF a.disk.readable THEN a.disk.token ELSE NoToken
    IN  IF ~IsNilToken(h.accessToken) /\ ~IsExpired(h.accessToken, a.now)
        THEN [h |-> h, token |-> h.accessToken, diskRead |-> FALSE, requested |-> FALSE]
        ELSE IF ~IsNilToken(cached) /\ ~IsExpired(cached, a.now)
        THEN [h |-> [h EXCEPT !.accessToken = cached], token |-> cached,
              diskRead |-> TRUE, requested |-> FALSE]
        ELSE IF IsNilToken(fresh)
        THEN [h |-> h, token |-> NoToken, diskRead |-> TRUE, requested |-> TRUE]
        ELSE [h |-> [h EXCEPT !.accessToken = fresh], token |-> fresh,
              diskRead |-> TRUE, requested |-> TRUE]

\* NewClient with credentials: NewClientCredentialsHandler(client, creds),
\* and the token cache found on disk
NewClient ==
    /\ auth.pc = "none"
    /\ \E readable, writable \in BOOLEAN :
       \E token \in {NoToken} \cup {AccessToken(0, 0, e) : e \in Lifetimes \cup {0}} :
          auth' = [NoAuth EXCEPT !.pc = "ready",
                                 !.disk = [readable |-> readable, writable |-> writable,
                                           token |-> token]]
    /\ UNCHANGED <<notClientVars, stream, txn, exec>>

\* c.accessTokenHandler.GetAccessToken()
GetAccessToken ==
    /\ auth.pc = "ready" /\ auth.lookups < MaxLookups
    /\ \E fresh \in {NoToken} \cup {AccessToken(auth.reqs + 1, auth.now, e) : e \in Lifetimes} :
       \E r \in {lookedUp(auth, fresh)} :
          auth' = [auth EXCEPT
                     !.handler = keptByValue(auth.handler, r.h),
                     !.disk.token = IF r.requested /\ ~IsNilToken(r.token) /\ auth.disk.writable
                                    THEN r.token ELSE @,
                     !.reads = IF r.diskRead THEN @ + 1 ELSE @,
                     !.reqs = IF r.requested THEN @ + 1 ELSE @,
                     !.lookups = @ + 1,
                     !.prev = auth.obtained,
                     !.obtained = IF IsNilToken(r.token) THEN @ ELSE r.token,
                     !.last = [token |-> r.token, diskRead |-> r.diskRead,
                               requested |-> r.requested, at |-> auth.now]]
    /\ UNCHANGED <<notClientVars, stream, txn, exec>>

\* Time passes
Tick ==
    /\ auth.pc = "ready" /\ auth.now < MaxTime
    /\ auth' = [auth EXCEPT !.now = @ + TickSecs]
    /\ UNCHANGED <<notClientVars, stream, txn, exec>>

AuthNext == NewClient \/ GetAccessToken \/ Tick

AuthSpec == Init /\ [][AuthNext]_vars

(***************************************************************************)
(* Properties of the token lookups.                                        *)
(***************************************************************************)
\* The last lookup was made when an earlier lookup of this client had
\* obtained a token that was not expired yet
LookupWithLiveToken ==
    /\ auth.last # None
    /\ ~IsNilToken(auth.prev)
    /\ ~IsExpired(auth.prev, auth.last.at)

\* C26 as stated: after GetAccessToken has obtained a token, from the disk
\* cache or from the server, every later lookup through the same client
\* while that token is unexpired returns it from the in-memory state,
\* without reading the disk cache and without requesting a new token.
C26_FromMemory ==
    LookupWithLiveToken =>
        /\ auth.last.token = auth.prev
        /\ ~auth.last.diskRead
        /\ ~auth.last.requested

\* What the handler does: the handler held by the client never has a token,
\* and every lookup reads the disk cache
C26_NeverInMemory ==
    /\ IsNilToken(auth.handler.accessToken)
    /\ auth.last # None => auth.last.diskRead
    /\ auth.reads = auth.lookups

\* A later lookup with a live token has read the disk cache
C26_DiskReadAgain ==
    /\ LookupWithLiveToken /\ auth.last.diskRead /\ ~auth.last.requested
    /\ auth.last.token = auth.prev

\* A later lookup with a live token has requested and returned another token
C26_RequestedAgain ==
    /\ LookupWithLiveToken /\ auth.last.requested
    /\ ~IsNilToken(auth.last.token) /\ auth.last.token # auth.prev

(***************************************************************************)
(* Columns() and Column(i) of the tabular columns of a partition and of    *)
(* the relation made of it (Spec).                                         *)
(***************************************************************************)
\* Tabular.Columns(): listColumn builds its item columns on first use, as
\* listItemColumn[T]{c.data, c.ncols, i}; every other kind returns its cols
TabularColumns(c) ==
    IF c.ck = "list"
    THEN [i \in 1..c.ncols |-> listItemColumn(c.t, c.data, c.ncols, i - 1)]
    ELSE c.cols

\* The tabular columns among cols and, at any depth, among their columns
RECURSIVE TabularsIn(_)
TabularsIn(cols) ==
    UNION {IF ~IsTabular(cols[i]) THEN {}
           ELSE IF cols[i].ck = "list" THEN {cols[i]}
           ELSE {cols[i]} \cup TabularsIn(cols[i].cols) : i \in 1..Len(cols)}

\* The partition and every tabular column in it and in the relation
Tabulars ==
    (IF record # NoRecord /\ ~IsPanic(part) THEN {part} \cup TabularsIn(part.cols) ELSE {})
    \cup (IF AssembledOk THEN TabularsIn(rel.cols) ELSE {})

\* baseRelation.Columns() and baseRelation.Column(cnum)
RelationColumns(r) == r.cols

RelationColumn(r, cnum) == IF InRange(cnum, Len(r.cols)) THEN r.cols[cnum + 1] ELSE Panic("index")

\* Two columns that report the same row count and the same value per row
SameColumn(a, b) ==
    \/ a = b
    \/ /\ NumRowsPanics(a) = NumRowsPanics(b)
       /\ NumRows(a) = NumRows(b)
       /\ \A rnum \in 0..(NumRows(a) - 1) : Value(a, rnum) = Value(b, rnum)

\* C27 as stated: for every tabular kind and every valid index i,
\* Columns()[i] and Column(i) denote the same sub-column: the same NumRows
\* and the same Value at every row.
C27_ColumnsAgree ==
    /\ \A t \in Tabulars : \A i \in 1..Len(TabularColumns(t)) :
          SameColumn(TabularColumns(t)[i], TabularColumnAt(t, i - 1))
    /\ AssembledOk =>
          \A i \in 1..Len(RelationColumns(rel)) :
              SameColumn(RelationColumns(rel)[i], RelationColumn(rel, i - 1))

\* The two agree for every tabular kind other than the list column
C27_AgreeButLists ==
    \A t \in Tabulars : \A i \in 1..Len(TabularColumns(t)) :
        t.ck # "list" => TabularColumns(t)[i] = TabularColumnAt(t, i - 1)

\* A list column of two items per row whose Columns()[1] reads one item per
\* row at offset 2 where Column(1) reads two per row at offset 1
C27_ListSeen ==
    \E t \in Tabulars :
        /\ t.ck = "list" /\ t.ncols = 2 /\ Len(t.data) >= 2
        /\ NumRows(TabularColumns(t)[2]) # NumRows(TabularColumnAt(t, 1))

\* A struct column and a value column are among the tabulars checked
C27_KindsSeen ==
    /\ \E t \in Tabulars : t.ck = "struct" /\ Len(t.cols) > 0
    /\ \E t \in Tabulars : t.ck = "value" /\ Len(t.cols) > 0
    /\ \E t \in Tabulars : t.ck = "const" /\ Len(t.cols) > 0

(***************************************************************************)
(* Rows of a union (UnionSpec).                                            *)
(***************************************************************************)
\* Row rnum of the union is row lr of input k in every column: column i of
\* input k at that row, or nil where input k has no column i
RowOfInput(rnum, k, lr) ==
    \A i \in 0..(RelNumCols(un) - 1) :
        Value(un.cols[i + 1], rnum) =
            IF i < RelNumCols(coll[k]) THEN Value(coll[k].cols[i + 1], lr) ELSE Nil

CoherentRow(rnum) ==
    \E k \in 1..Len(coll) : \E lr \in 0..(RelNumRows(coll[k]) - 1) :
        /\ rnum = RowOffset(k) + lr
        /\ RowOfInput(rnum, k, lr)

UnionRows == IF RelNumRowsPanics(un) THEN {} ELSE 0..(RelNumRows(un) - 1)

\* C28 as stated: in a union of two or more relations every row is coherent
\* across columns: there is one input relation k and one local row such that
\* each column of the union gives column i of relation k at that row, or nil
\* where relation k has no column i.
C28_CoherentRows ==
    UnionedOk => \A rnum \in UnionRows : CoherentRow(rnum)

\* The statement of C28 for inputs whose columns all report the input's rows
C28_CoherentWhenColumnsAgree ==
    (UnionedOk /\ InputColumnsAgree) => \A rnum \in UnionRows : CoherentRow(rnum)

\* A union row whose columns read different inputs
C28_MixedRowSeen ==
    /\ UnionedOk /\ Len(coll) = 2
    /\ RelNumCols(coll[1]) = 2 /\ RelNumCols(coll[2]) = 2
    /\ ~RelNumRowsPanics(un) /\ RelNumRows(un) > 0
    /\ Value(un.cols[1], 0) = Value(coll[1].cols[1], 0)
    /\ Value(un.cols[2], 0) = Value(coll[2].cols[2], 0)
    /\ ~CoherentRow(0)

\* A union of inputs of different widths with coherent rows in every column
C28_CoherentSeen ==
    /\ UnionedOk /\ InputColumnsAgree /\ DifferentWidths
    /\ RelNumRows(un) >= 3
    /\ \A rnum \in UnionRows : CoherentRow(rnum)

(***************************************************************************)
(* ExecuteSpec: Client.Execute posts the transaction and polls             *)
(* GetTransaction until the transaction is terminal.                       *)
(***************************************************************************)
MaxPolls == 3

\* The status codes of the answer to the POST: the fast path, the
\* transaction created, anything else
StatusCodes == {200, 201, 500}

\* opts := GetTransactionOptions{true, true, true}
AllOutputs == [o \in OutputSet |-> TRUE]

\* The response of the transaction alone, as readJSON fills it
TransactionAlone(state) ==
    [rsp |-> [transaction |-> state, field |-> [o \in OutputSet |-> "nil"]]]

\* ReadTransactionResponse of a multipart body: the parts present fill
\* their fields; the state is empty when there is no transaction part
FastPathStates == TxStates \cup {""}

ReadTransactionResponse(state, parts) ==
    [rsp |-> [transaction |-> state,
              field |-> [o \in OutputSet |-> IF o \in parts THEN o ELSE "nil"]]]

\* GetTransaction(id, opts) once the resource is read with the state given
\* and the fetches have ended with the errors in failed
GetTransaction(opts, state, failed) ==
    IF ~isTransactionComplete(state) THEN TransactionAlone(state)
    ELSE returned([NoTransaction EXCEPT
                     !.opts = opts, !.state = state,
                     !.field = [o \in OutputSet |->
                                  IF selectedOutputs(opts)[o] /\ o \notin failed
                                  THEN o ELSE "nil"],
                     !.err = [o \in OutputSet |->
                                IF selectedOutputs(opts)[o] /\ o \in failed
                                THEN o ELSE "nil"]])

\* Execute after the value r of a request: an error ends it, a terminal
\* transaction is returned, another state goes on polling
afterRequest(e, r, source, asked) ==
    IF "err" \in DOMAIN r
    THEN [e EXCEPT !.pc = "done", !.out = r, !.source = source, !.asked = asked]
    ELSE IF isTransactionComplete(r.rsp.transaction)
    THEN [e EXCEPT !.pc = "done", !.out = r, !.state = r.rsp.transaction,
                   !.source = source, !.asked = asked]
    ELSE [e EXCEPT !.pc = "poll", !.state = r.rsp.transaction,
                   !.source = source, !.asked = asked]

CallExecute ==
    /\ exec.pc = "idle"
    /\ exec' = [NoExecute EXCEPT !.pc = "post"]
    /\ UNCHANGED <<notClientVars, stream, txn, auth>>

\* rsp, err := c.ExecuteAsync(...) and the fast path test of Execute
ExecuteAsync ==
    /\ exec.pc = "post"
    /\ \/ exec' = afterRequest(exec, Failed("request"), "none", <<>>)
       \/ \E status \in StatusCodes :
             \E r \in CASE status = 200 ->
                            {Failed("read")} \cup
                            {ReadTransactionResponse(state, parts) :
                                state \in FastPathStates, parts \in SUBSET OutputSet}
                        [] status = 201 ->
                            {Failed("json")} \cup {TransactionAlone(state) : state \in TxStates}
                        [] OTHER -> {Failed("unexpected status code")} :
                exec' = afterRequest([exec EXCEPT !.status = status], r,
                                     IF status = 200 THEN "multipart"
                                     ELSE IF status = 201 THEN "json" ELSE "none",
                                     <<>>)
    /\ UNCHANGED <<notClientVars, stream, txn, auth>>

\* One turn of the loop: rsp, err := c.GetTransaction(id, opts)
Poll ==
    /\ exec.pc = "poll" /\ exec.polls < MaxPolls
    /\ \/ exec' = afterRequest([exec EXCEPT !.polls = @ + 1], Failed("get"),
                               "get", <<AllOutputs>>)
       \/ \E state \in TxStates : \E failed \in SUBSET OutputSet :
             exec' = afterRequest([exec EXCEPT !.polls = @ + 1],
                                  GetTransaction(<<AllOutputs>>, state, failed),
                                  "get", <<AllOutputs>>)
    /\ UNCHANGED <<notClientVars, stream, txn, auth>>

ExecuteNext == CallExecute \/ ExecuteAsync \/ Poll

ExecuteSpec == Init /\ [][ExecuteNext]_vars

(***************************************************************************)
(* Properties of Execute.                                                  *)
(***************************************************************************)
ExecuteReturned == exec.pc = "done" /\ "rsp" \in DOMAIN exec.out

\* Execute is in its loop only after a non-terminal state, and has ended
\* only by an error or a terminal transaction
PollsUntilTerminal ==
    /\ exec.pc = "poll" => (exec.out = None /\ ~isTransactionComplete(exec.state))
    /\ exec.pc = "done" =>
          \/ "err" \in DOMAIN exec.out
          \/ /\ "rsp" \in DOMAIN exec.out
             /\ isTransactionComplete(exec.out.rsp.transaction)

\* C29 as stated: whenever Execute returns a response without error the
\* transaction in it is terminal, and the response was produced by the
\* fast-path multipart read or by a GetTransaction that requested results,
\* metadata and problems; Execute keeps polling while the observed state is
\* not terminal and ends as soon as a poll observes a terminal state or a
\* request fails.
C29_TerminalFromFastPathOrPoll ==
    /\ PollsUntilTerminal
    /\ ExecuteReturned =>
          \/ exec.source = "multipart"
          \/ exec.source = "get" /\ exec.asked = <<AllOutputs>>

\* What Execute does: the response returned is terminal and was read from
\* the multipart body, from the JSON body of a 201 answer, or by the poll
C29_TerminalFromAnyAnswer ==
    /\ PollsUntilTerminal
    /\ ExecuteReturned =>
          \/ exec.source = "multipart" /\ exec.status = 200 /\ exec.polls = 0
          \/ exec.source = "json" /\ exec.status = 201 /\ exec.polls = 0
          \/ exec.source = "get" /\ exec.asked = <<AllOutputs>> /\ exec.polls > 0

\* A terminal transaction read from the JSON body of a 201 answer has been
\* returned with no results, metadata or problems
C29_CreatedTerminalSeen ==
    /\ ExecuteReturned /\ exec.status = 201 /\ exec.polls = 0
    /\ exec.out = TransactionAlone("COMPLETED")

\* A response has been returned by the third poll
C29_PolledSeen ==
    /\ ExecuteReturned /\ exec.polls = 3 /\ exec.source = "get"
    /\ exec.out.rsp.field["results"] = "results"

(***************************************************************************)
(* BuiltinSpec: one builtin value is rendered twice, as the constant       *)
(* newConstColumn folds out of the metadata and as the value column        *)
(* newBuiltinValueColumn builds over a physical column holding it.         *)
(***************************************************************************)
MaxBuiltinValue == 15

\* The builtin kinds rendered: those whose physical form is one integer, and
\* Missing
BuiltinKinds ==
    {"Date", "DateTime", "AutoNumber", "FilePos", "Missing", "Year", "Nanosecond"}

\* The Go type of the encoded value of a builtin kind
EncodedType(kind) == IF kind = "AutoNumber" THEN "uint64" ELSE "int64"

BuiltinPrefix(kind) == <<Str("rel"), Str("base"), Str(kind)>>

\* The constant-type compositor carrying the value n
BuiltinConst(kind, n) ==
    ConstType(IF kind = "Missing" THEN BuiltinPrefix(kind)
              ELSE Append(BuiltinPrefix(kind), IntLit(EncodedType(kind), n)))

\* The value-type compositor of the kind
BuiltinValue(kind) ==
    IF kind = "Missing" THEN BuiltinPrefix(kind)
    ELSE Append(BuiltinPrefix(kind), TypeOf(EncodedType(kind)))

\* String and Value of row 0 of a column
Rendered(c) ==
    IF IsPanic(c) THEN [str |-> PanicText, val |-> [v |-> c]]
    ELSE [str |-> String(c, 0), val |-> [v |-> Value(c, 0)]]

CallBuiltin ==
    /\ call = None /\ ret = None
    /\ \E kind \in BuiltinKinds : \E n \in 0..MaxBuiltinValue :
          call' = [fn |-> "builtin", kind |-> kind, n |-> n]
    /\ UNCHANGED <<ret, asmVars, unionVars, interpVars, selVars, readers, respVars>>
    /\ UNCHANGED clientVars

RenderBuiltin ==
    /\ call # None /\ ret = None
    /\ call.fn = "builtin"
    /\ ret' = [folded |-> Rendered(newConstColumn(BuiltinConst(call.kind, call.n), 1)),
               physical |-> Rendered(newBuiltinValueColumn(
                                         BuiltinValue(call.kind),
                                         primitiveColumn(EncodedType(call.kind), <<call.n>>),
                                         1))]
    /\ UNCHANGED <<call, asmVars, unionVars, interpVars, selVars, readers, respVars>>
    /\ UNCHANGED clientVars

BuiltinNext == CallBuiltin \/ RenderBuiltin

BuiltinSpec == Init /\ [][BuiltinNext]_vars

(***************************************************************************)
(* Properties of the two renderings.                                       *)
(***************************************************************************)
BuiltinRendered == call # None /\ ret # None

\* C30 as stated: a builtin value renders to the same text whether it is
\* constant-folded into the metadata or delivered as physical data: the
\* column of the constant-type compositor carrying v and the column of the
\* value-type compositor over a physical column holding v return equal
\* String and equal Value.
C30_SameRendering ==
    BuiltinRendered =>
        /\ ret.folded.str = ret.physical.str
        /\ ret.folded.val = ret.physical.val

\* The two columns return equal values for every kind rendered, and equal
\* text for every kind but Date
C30_SameButDateText ==
    BuiltinRendered =>
        /\ ret.folded.str # PanicText /\ ret.physical.str # PanicText
        /\ ret.folded.val = ret.physical.val
        /\ call.kind # "Date" => ret.folded.str = ret.physical.str
        /\ call.kind = "Date" => ret.folded.str # ret.physical.str

\* A date has been rendered by both columns: one time value, two texts
C30_DateSeen ==
    /\ BuiltinRendered /\ call.kind = "Date" /\ call.n = 1
    /\ ret.folded.val = [v |-> DateFromRataDie(1)]
    /\ ret.folded.str = FormatTime(DateFromRataDie(1), "RFC3339")
    /\ ret.physical.str = FormatTime(DateFromRataDie(1), "2006-01-02")

\* A date-time has been rendered by both columns to the same text
C30_DateTimeSeen ==
    /\ BuiltinRendered /\ call.kind = "DateTime" /\ call.n = 1
    /\ ret.folded = ret.physical

====
